---------------------------- MODULE Spec2Model ----------------------------
(***************************************************************************)
(* The QOSST control protocol sockets (qosst_core/control_protocol):       *)
(* QOSSTSocket.send / QOSSTSocket.recv, the rolling challenge, the         *)
(* QOSSTClient and QOSSTServer life cycle, and the NoneAuthenticator.      *)
(*                                                                         *)
(* Granularity.  A wire byte is a record; a run of characters of a JSON    *)
(* document that the code never splits by itself (one "key": value member  *)
(* of an object, or a whole scalar document) is one byte of the model, so  *)
(* lengths are counted in such units.  A challenge string is modelled by   *)
(* an integer identifier: 0 is the empty string "", n > 0 is the n-th      *)
(* string produced by secrets.choice (distinct draws are distinct          *)
(* strings).  A SHA-256 digest is a symbolic value holding the message it  *)
(* was computed from, so that two digests are equal exactly when the       *)
(* messages are.                                                           *)
(***************************************************************************)
EXTENDS Integers, Sequences, FiniteSets, TLC

(***************************************************************************)
(* Bounds of the model.                                                    *)
(***************************************************************************)
\* socket.recv(READING_BUFFER): most bytes one read returns; larger than
\* two frames of the model, as the program's value is larger than its frames.
READING_BUFFER == 32
\* hashlib.sha256(...).digest() has 32 bytes; the model's digest has fewer,
\* but more than the 4 bytes the first loop of recv() waits for.
DIGEST_SIZE == 6
\* Number of send() calls that draw a challenge in a run.
MaxSends == 2
\* Number of reads that return fewer bytes than are available.
MaxShortReads == 1
\* Number of captured frames the network delivers a second time.
MaxReplays == 2
\* Number of frames the network alters in flight.
MaxTampers == 1
\* Number of frames a party that does not follow send() writes.
MaxCrafts == 1

(***************************************************************************)
(* Python values: None, int, str, dict.                                    *)
(***************************************************************************)
NoItems == [k \in {} |-> 0]
PyNone == [ty |-> "None", v |-> 0, d |-> NoItems]
PyInt(n) == [ty |-> "int", v |-> n, d |-> NoItems]
PyStr(n) == [ty |-> "str", v |-> n, d |-> NoItems]
PyDict(items) == [ty |-> "dict", v |-> 0, d |-> items]

\* bool(x) as used by "if data:" and "if content_length:".
Truthy(x) ==
    CASE x.ty = "None" -> FALSE
      [] x.ty = "int" -> x.v # 0
      [] x.ty = "str" -> x.v # 0
      [] OTHER -> DOMAIN x.d # {}

(***************************************************************************)
(* Protocol codes.                                                         *)
(***************************************************************************)
QOSSTCodes ==
    (10..17) \cup (50..54) \cup (70..73) \cup (100..102) \cup (120..125)
    \cup (140..145) \cup (160..167) \cup (180..191) \cup (200..202)
    \cup (220..223)

IDENTIFICATION_REQUEST == 100
IDENTIFICATION_RESPONSE == 101
QIE_REQUEST == 140
FRAME_ENDED == 220

SOCKET_DISCONNECTION == -1
FRAME_ERROR == -2
AUTHENTICATION_FAILURE == -3
UNKOWN_CODE == -4

QOSSTErrorCodes ==
    {SOCKET_DISCONNECTION, FRAME_ERROR, AUTHENTICATION_FAILURE, UNKOWN_CODE}

\* The members of the enumeration QOSSTCodes in the order of the source, each
\* with the group whose comment it stands under.
QOSSTCodesMembers ==
    <<
     [name |-> "UNKOWN_COMMAND", value |-> 10, group |-> "generic"],
     [name |-> "UNEXPECTED_COMMAND", value |-> 11, group |-> "generic"],
     [name |-> "INVALID_CONTENT", value |-> 12, group |-> "generic"],
     [name |-> "INVALID_RESPONSE", value |-> 13, group |-> "generic"],
     [name |-> "INVALID_RESPONSE_ACK", value |-> 14, group |-> "generic"],
     [name |-> "ABORT", value |-> 15, group |-> "generic"],
     [name |-> "ABORT_ACK", value |-> 16, group |-> "generic"],
     [name |-> "AUTHENTICATION_INVALID", value |-> 17, group |-> "generic"],
     [name |-> "CHANGE_PARAMETER_REQUEST", value |-> 50, group |-> "parameter"],
     [name |-> "PARAMETER_CHANGED", value |-> 51, group |-> "parameter"],
     [name |-> "PARAMETER_UNKOWN", value |-> 52, group |-> "parameter"],
     [name |-> "PARAMETER_INVALID_VALUE", value |-> 53, group |-> "parameter"],
     [name |-> "PARAMETER_UNCHANGED", value |-> 54, group |-> "parameter"],
     [name |-> "REQUEST_POLARISATION_RECOVERY", value |-> 70, group |-> "polarisation"],
     [name |-> "POLARISATION_RECOVERY_ACK", value |-> 71, group |-> "polarisation"],
     [name |-> "END_POLARISATION_RECOVERY", value |-> 72, group |-> "polarisation"],
     [name |-> "POLARISATION_RECOVERY_ENDED", value |-> 73, group |-> "polarisation"],
     [name |-> "IDENTIFICATION_REQUEST", value |-> 100, group |-> "identification"],
     [name |-> "IDENTIFICATION_RESPONSE", value |-> 101, group |-> "identification"],
     [name |-> "INVALID_QOSST_VERSION", value |-> 102, group |-> "identification"],
     [name |-> "INITIALIZATION_REQUEST", value |-> 120, group |-> "initialization"],
     [name |-> "INITIALIZATION_ACCEPTED", value |-> 121, group |-> "initialization"],
     [name |-> "INITIALIZATION_DENIED", value |-> 122, group |-> "initialization"],
     [name |-> "INITIALIZATION_PROPOSAL", value |-> 123, group |-> "initialization"],
     [name |-> "INITIALIZATION_REQUEST_CONFIG", value |-> 124, group |-> "initialization"],
     [name |-> "INITIALIZATION_CONFIG", value |-> 125, group |-> "initialization"],
     [name |-> "QIE_REQUEST", value |-> 140, group |-> "qie"],
     [name |-> "QIE_READY", value |-> 141, group |-> "qie"],
     [name |-> "QIE_TRIGGER", value |-> 142, group |-> "qie"],
     [name |-> "QIE_EMISSION_STARTED", value |-> 143, group |-> "qie"],
     [name |-> "QIE_ACQUISITION_ENDED", value |-> 144, group |-> "qie"],
     [name |-> "QIE_ENDED", value |-> 145, group |-> "qie"],
     [name |-> "PE_SYMBOLS_REQUEST", value |-> 160, group |-> "pe"],
     [name |-> "PE_SYMBOLS_RESPONSE", value |-> 161, group |-> "pe"],
     [name |-> "PE_SYMBOLS_ERROR", value |-> 162, group |-> "pe"],
     [name |-> "PE_NPHOTON_REQUEST", value |-> 163, group |-> "pe"],
     [name |-> "PE_NPHOTON_RESPONSE", value |-> 164, group |-> "pe"],
     [name |-> "PE_FINISHED", value |-> 165, group |-> "pe"],
     [name |-> "PE_APPROVED", value |-> 166, group |-> "pe"],
     [name |-> "PE_DENIED", value |-> 167, group |-> "pe"],
     [name |-> "EC_INITIALIZATION", value |-> 180, group |-> "ec"],
     [name |-> "EC_READY", value |-> 181, group |-> "ec"],
     [name |-> "EC_DENIED", value |-> 182, group |-> "ec"],
     [name |-> "EC_BLOCK", value |-> 183, group |-> "ec"],
     [name |-> "EC_BLOCK_ACK", value |-> 184, group |-> "ec"],
     [name |-> "EC_BLOCK_ERROR", value |-> 185, group |-> "ec"],
     [name |-> "EC_REMAINING", value |-> 186, group |-> "ec"],
     [name |-> "EC_REMAINING_ACK", value |-> 187, group |-> "ec"],
     [name |-> "EC_REMAINING_ERROR", value |-> 188, group |-> "ec"],
     [name |-> "EC_VERIFICATION", value |-> 189, group |-> "ec"],
     [name |-> "EC_VERIFICATION_SUCCESS", value |-> 190, group |-> "ec"],
     [name |-> "EC_VERIFICATION_FAIL", value |-> 191, group |-> "ec"],
     [name |-> "PA_REQUEST", value |-> 200, group |-> "pa"],
     [name |-> "PA_SUCCESS", value |-> 201, group |-> "pa"],
     [name |-> "PA_ERROR", value |-> 202, group |-> "pa"],
     [name |-> "FRAME_ENDED", value |-> 220, group |-> "end"],
     [name |-> "FRAME_ENDED_ACK", value |-> 221, group |-> "end"],
     [name |-> "DISCONNECTION", value |-> 222, group |-> "end"],
     [name |-> "DISCONNECTION_ACK", value |-> 223, group |-> "end"]
    >>

\* The members of the enumeration QOSSTErrorCodes.
QOSSTErrorCodesMembers ==
    <<
     [name |-> "SOCKET_DISCONNECTION", value |-> -1],
     [name |-> "FRAME_ERROR", value |-> -2],
     [name |-> "AUTHENTICATION_FAILURE", value |-> -3],
     [name |-> "UNKOWN_CODE", value |-> -4]
    >>

\* The band the comment of each group gives.
Bands ==
    [g \in {"generic", "parameter", "polarisation", "identification",
            "initialization", "qie", "pe", "ec", "pa", "end"} |->
        CASE g = "generic" -> 10..49
          [] g = "parameter" -> 50..69
          [] g = "polarisation" -> 70..79
          [] g = "identification" -> 100..119
          [] g = "initialization" -> 120..139
          [] g = "qie" -> 140..159
          [] g = "pe" -> 160..179
          [] g = "ec" -> 180..199
          [] g = "pa" -> 200..219
          [] OTHER -> 220..229]

(***************************************************************************)
(* Wire bytes.                                                             *)
(*   u8    a byte given by its value (the fixed header's length bytes)     *)
(*   kv    one member  "k": value  of a JSON object (ty, v: the value)     *)
(*   map0  the document {}                                                 *)
(*   num   a document that is a JSON number                                *)
(*   junk  text that is not JSON                                           *)
(*   bad   a byte that is not valid UTF-8                                  *)
(*   sha   the first byte of the SHA-256 digest of message m, which stands *)
(*         for the digest's dependence on m                                *)
(*   pad   the v-th byte (v > 1) of a digest                               *)
(***************************************************************************)
Byte(t, k, ty, v, m) == [t |-> t, k |-> k, ty |-> ty, v |-> v, m |-> m]
U8(n) == Byte("u8", "", "", n, <<>>)
Member(k, val) == Byte("kv", k, val.ty, val.v, <<>>)
EmptyMapByte == Byte("map0", "", "", 0, <<>>)
NumByte(n) == Byte("num", "", "", n, <<>>)
JunkByte == Byte("junk", "", "", 0, <<>>)
BadByte == Byte("bad", "", "", 0, <<>>)
ShaByte(i, msg) == IF i = 1 THEN Byte("sha", "", "", 1, msg)
                   ELSE Byte("pad", "", "", i, <<>>)

\* The value 0..255 of a byte: what int.from_bytes and the UTF-8 decoder see.
\* A member starts with a quote, {} with a brace, a number with a digit; a
\* digest byte has a fixed value of the upper half.
ByteVal(b) ==
    CASE b.t = "u8" -> b.v
      [] b.t = "kv" -> 34
      [] b.t = "map0" -> 123
      [] b.t = "num" -> 53
      [] b.t = "junk" -> 125
      [] b.t = "bad" -> 255
      [] b.t = "sha" -> 128 + (Len(b.m) % 128)
      [] OTHER -> 128 + (b.v % 128)

Min(a, b) == IF a < b THEN a ELSE b
Max(a, b) == IF a > b THEN a ELSE b

\* Python slices s[:n] and s[n:] (n may be negative or exceed len(s)).
SliceTo(s, n) ==
    LET e == IF n < 0 THEN Max(0, Len(s) + n) ELSE Min(n, Len(s))
    IN SubSeq(s, 1, e)
SliceFrom(s, n) ==
    LET b == IF n < 0 THEN Max(0, Len(s) + n) ELSE Min(n, Len(s))
    IN SubSeq(s, b + 1, Len(s))

\* n.to_bytes(2, "big")
ToBytes2(n) == <<U8(n \div 256), U8(n % 256)>>

\* int.from_bytes(bs, "big") for at most two bytes (b"" gives 0).
FromBytes(bs) ==
    CASE Len(bs) = 0 -> 0
      [] Len(bs) = 1 -> ByteVal(bs[1])
      [] OTHER -> 256 * ByteVal(bs[1]) + ByteVal(bs[2])

(***************************************************************************)
(* json.dumps(...).encode("utf-8") and json.loads(bytes.decode("utf-8")).  *)
(***************************************************************************)
\* json.dumps of a dict whose keys were inserted in the order keys.
DumpsDict(d, keys) ==
    IF Len(keys) = 0 THEN <<EmptyMapByte>>
    ELSE [i \in 1..Len(keys) |-> Member(keys[i], d[keys[i]])]

RECURSIVE KeySeq(_)
KeySeq(S) ==
    IF S = {} THEN <<>>
    ELSE LET k == CHOOSE x \in S : TRUE IN <<k>> \o KeySeq(S \ {k})

\* json.dumps(data).encode("utf-8") for a payload dict.
DumpsData(data) == DumpsDict(data.d, KeySeq(DOMAIN data.d))

\* bytes.decode("utf-8") fails on a byte that is not text.
IsText(bs) == \A i \in 1..Len(bs) : ByteVal(bs[i]) < 128

\* The dict a sequence of members denotes (a repeated key keeps its last value).
MembersToDict(bs) ==
    LET keys == {bs[i].k : i \in 1..Len(bs)}
        last(k) == CHOOSE i \in 1..Len(bs) :
                      /\ bs[i].k = k
                      /\ \A j \in (i+1)..Len(bs) : bs[j].k # k
    IN [k \in keys |-> [ty |-> bs[last(k)].ty, v |-> bs[last(k)].v, d |-> NoItems]]

\* json.loads(bs.decode("utf-8")): [err |-> "" | exception name, val |-> value]
JsonLoads(bs) ==
    CASE ~IsText(bs) -> [err |-> "UnicodeDecodeError", val |-> PyNone]
      [] Len(bs) = 0 -> [err |-> "JSONDecodeError", val |-> PyNone]
      [] \A i \in 1..Len(bs) : bs[i].t = "kv" ->
            [err |-> "", val |-> PyDict(MembersToDict(bs))]
      [] Len(bs) = 1 /\ bs[1].t = "map0" -> [err |-> "", val |-> PyDict(NoItems)]
      [] Len(bs) = 1 /\ bs[1].t = "num" -> [err |-> "", val |-> PyInt(bs[1].v)]
      [] OTHER -> [err |-> "JSONDecodeError", val |-> PyNone]

(***************************************************************************)
(* The authenticator (NoneAuthenticator) and the digest.                   *)
(***************************************************************************)
\* hashlib.sha256(message).digest()
Sha256(msg) == [i \in 1..DIGEST_SIZE |-> ShaByte(i, msg)]

sign_digest(digest) == digest

\* check_digest with a fault: every signature is taken for good.
check_digest_accepting(digest, signed_digest) == TRUE

check_digest(digest, signed_digest) == digest = signed_digest


(***************************************************************************)
(* QOSSTSocket.send: the frame written to the wire.                        *)
(***************************************************************************)
HeaderKeys == <<"code", "content_length", "challenge", "next_challenge">>

\* The variable_header dict of send().
VariableHeader(code, content_length, challenge, next_challenge) ==
    [k \in {"code", "content_length", "challenge", "next_challenge"} |->
        CASE k = "code" -> PyInt(code)
          [] k = "content_length" -> PyInt(content_length)
          [] k = "challenge" -> challenge
          [] OTHER -> next_challenge]

\* DataBytes with a fault: a payload is written whatever data is.
DataBytesAlways(data) == DumpsData(data)

\* data_bytes of send(): "if data:" decides whether a payload is written.
DataBytes(data) == IF Truthy(data) THEN DumpsData(data) ELSE <<>>

\* Assemble with a fault: the two sizes of the fixed header change places.
AssembleSizesSwapped(variable_header_bytes, data_bytes) ==
    LET message == variable_header_bytes \o data_bytes
        signed_digest == sign_digest(Sha256(message))
        fixed_header == ToBytes2(Len(signed_digest))
                            \o ToBytes2(Len(variable_header_bytes))
    IN fixed_header \o signed_digest \o message

\* fixed_header + signed_digest + message for given header and payload bytes.
Assemble(variable_header_bytes, data_bytes) ==
    LET message == variable_header_bytes \o data_bytes
        signed_digest == sign_digest(Sha256(message))
        fixed_header == ToBytes2(Len(variable_header_bytes))
                            \o ToBytes2(Len(signed_digest))
    IN fixed_header \o signed_digest \o message

\* The bytes send(code, data) passes to sendall when the endpoint's challenge
\* is challenge and the challenge it draws is next_challenge.
FrameBytes(code, data, challenge, next_challenge) ==
    LET data_bytes == DataBytes(data)
        variable_header_bytes ==
            DumpsDict(VariableHeader(code, Len(data_bytes), challenge,
                                     next_challenge), HeaderKeys)
    IN Assemble(variable_header_bytes, data_bytes)

\* SendChallenge with a fault: send() keeps the challenge it had.
SendChallengeKept(challenge, next_challenge) == challenge

\* self.challenge after send(): the challenge drawn for the other party.
SendChallenge(challenge, next_challenge) == next_challenge

(***************************************************************************)
(* QOSSTSocket.recv: what happens between two reads of the socket.         *)
(* A step ends either waiting for a read (pc names the loop) or with the   *)
(* result of the call (pc = "done").  stage names the last place reached.  *)
(***************************************************************************)
NoResult ==
    [out |-> "none", exc |-> "", code |-> 0, data |-> PyNone, stage |-> "",
     challenge |-> PyNone, header |-> NoItems]

\* return code, data
Return(code, data, stage, challenge, header) ==
    [out |-> "return", exc |-> "", code |-> code, data |-> data,
     stage |-> stage, challenge |-> challenge, header |-> header]

\* an exception leaving recv()
Raise(exc, stage, challenge) ==
    [out |-> "raise", exc |-> exc, code |-> 0, data |-> PyNone,
     stage |-> stage, challenge |-> challenge, header |-> NoItems]

IdleRecv ==
    [pc |-> "idle", recv_buffer |-> <<>>, header_size |-> 0, digest_size |-> 0,
     signed_digest |-> <<>>, header_bytes |-> <<>>]

Waiting(pc, recv_buffer, header_size, digest_size, signed_digest, header_bytes) ==
    [rs |-> [pc |-> pc, recv_buffer |-> recv_buffer, header_size |-> header_size,
             digest_size |-> digest_size, signed_digest |-> signed_digest,
             header_bytes |-> header_bytes],
     res |-> NoResult]

Done(res) == [rs |-> IdleRecv, res |-> res]

\* IsQOSSTCode with a fault: every integer is taken for a code.
IsQOSSTCodeAnyInt(val) == val.ty = "int"

\* QOSSTCodes(header["code"]) does not raise ValueError.
IsQOSSTCode(val) == val.ty = "int" /\ val.v \in QOSSTCodes

\* ChallengeAccepted with a fault: no frame fails the test.
ChallengeAcceptedAnyFrame(challenge, header_challenge, code) == TRUE

\* ChallengeAccepted with a fault: IDENTIFICATION_REQUEST is not exempted.
ChallengeAcceptedNoExemption(challenge, header_challenge, code) ==
    challenge = header_challenge

\* The challenge test: not (self.challenge != header["challenge"] and code != IDENTIFICATION_REQUEST)
ChallengeAccepted(challenge, header_challenge, code) ==
    ~(~(challenge = header_challenge) /\ code # IDENTIFICATION_REQUEST)

\* EofResult with a fault: the loop of the signature reports a disconnection.
EofResultDigestDisconnect(pc, challenge) ==
    IF pc \in {"fixed", "digest"}
    THEN Return(SOCKET_DISCONNECTION, PyNone, pc, challenge, NoItems)
    ELSE Return(FRAME_ERROR, PyNone, pc, challenge, NoItems)

\* The result of an EOF (b"" or ConnectionError) in the loop of phase pc; the
\* stage of the result is the loop: "fixed", "digest", "header" or "content".
EofResult(pc, challenge) ==
    IF pc = "fixed"
    THEN Return(SOCKET_DISCONNECTION, PyNone, pc, challenge, NoItems)
    ELSE Return(FRAME_ERROR, PyNone, pc, challenge, NoItems)

\* CheckFrame with a fault: the next_challenge of a frame that fails the test
\* of the challenge is adopted.
CheckFrameAdoptsRejected(challenge, header_bytes, header, content_bytes, content, signed_digest) ==
    IF ~IsQOSSTCode(header["code"])
    THEN Return(UNKOWN_CODE, PyNone, "code", challenge, header)
    ELSE IF ~check_digest(Sha256(header_bytes \o content_bytes), signed_digest)
    THEN Return(AUTHENTICATION_FAILURE, PyNone, "signature", challenge, header)
    ELSE IF ~ChallengeAccepted(challenge, header["challenge"], header["code"].v)
    THEN Return(AUTHENTICATION_FAILURE, PyNone, "challenge",
                header["next_challenge"], header)
    ELSE Return(header["code"].v, content, "accepted", header["next_challenge"], header)

\* From the code test to the return.
CheckFrame(challenge, header_bytes, header, content_bytes, content, signed_digest) ==
    IF ~IsQOSSTCode(header["code"])
    THEN Return(UNKOWN_CODE, PyNone, "code", challenge, header)
    ELSE IF ~check_digest(Sha256(header_bytes \o content_bytes), signed_digest)
    THEN Return(AUTHENTICATION_FAILURE, PyNone, "signature", challenge, header)
    ELSE IF ~ChallengeAccepted(challenge, header["challenge"], header["code"].v)
    THEN Return(AUTHENTICATION_FAILURE, PyNone, "challenge", challenge, header)
    ELSE Return(header["code"].v, content, "accepted", header["next_challenge"], header)

\* "if content_length:" and the loop that waits for the content.
ContentPhase(challenge, recv_buffer, header_size, digest_size, signed_digest, header_bytes) ==
    LET header == JsonLoads(header_bytes).val.d
        content_length == header["content_length"]
    IN  IF ~Truthy(content_length)
        THEN Done(CheckFrame(challenge, header_bytes, header, <<>>, PyNone,
                             signed_digest))
        ELSE IF content_length.ty # "int"
        THEN Done(Raise("TypeError", "content_length", challenge))
        ELSE IF Len(recv_buffer) < content_length.v
        THEN Waiting("content", recv_buffer, header_size, digest_size,
                     signed_digest, header_bytes)
        ELSE LET content_bytes == SliceTo(recv_buffer, content_length.v)
                 parsed == JsonLoads(content_bytes)
             IN  IF parsed.err = "UnicodeDecodeError"
                 THEN Done(Raise("UnicodeDecodeError", "content_parse", challenge))
                 ELSE IF parsed.err = "JSONDecodeError"
                 THEN Done(Return(FRAME_ERROR, PyNone, "content_parse",
                                  challenge, NoItems))
                 ELSE Done(CheckFrame(challenge, header_bytes, header,
                                      content_bytes, parsed.val, signed_digest))

\* The loop that waits for the header, its decoding and the test of its keys.
HeaderPhase(challenge, recv_buffer, header_size, digest_size, signed_digest) ==
    IF Len(recv_buffer) < header_size
    THEN Waiting("header", recv_buffer, header_size, digest_size, signed_digest, <<>>)
    ELSE LET header_bytes == SliceTo(recv_buffer, header_size)
             parsed == JsonLoads(header_bytes)
             rest == SliceFrom(recv_buffer, header_size)
         IN  IF parsed.err = "UnicodeDecodeError"
             THEN Done(Raise("UnicodeDecodeError", "header_parse", challenge))
             ELSE IF parsed.err = "JSONDecodeError"
             THEN Done(Return(FRAME_ERROR, PyNone, "header_parse", challenge,
                              NoItems))
             ELSE IF parsed.val.ty # "dict"
             THEN Done(Raise("TypeError", "header_keys", challenge))
             ELSE IF \E k \in {"code", "challenge", "next_challenge",
                               "content_length"} : k \notin DOMAIN parsed.val.d
             THEN Done(Return(FRAME_ERROR, PyNone, "header_keys", challenge,
                              NoItems))
             ELSE ContentPhase(challenge, rest, header_size, digest_size,
                               signed_digest, header_bytes)

\* The loop that waits for the digest.
DigestPhase(challenge, recv_buffer, header_size, digest_size) ==
    IF Len(recv_buffer) < digest_size
    THEN Waiting("digest", recv_buffer, header_size, digest_size, <<>>, <<>>)
    ELSE HeaderPhase(challenge, SliceFrom(recv_buffer, digest_size),
                     header_size, digest_size, SliceTo(recv_buffer, digest_size))

\* One turn of the first loop, after received_data was appended: both sizes
\* are taken from the buffer and the four bytes dropped, in every turn.
FixedPhase(challenge, recv_buffer) ==
    LET header_size == FromBytes(SliceTo(recv_buffer, 2))
        buffer2 == SliceFrom(recv_buffer, 2)
        digest_size == FromBytes(SliceTo(buffer2, 2))
        buffer4 == SliceFrom(buffer2, 2)
    IN  IF Len(buffer4) < 4
        THEN Waiting("fixed", buffer4, header_size, digest_size, <<>>, <<>>)
        ELSE DigestPhase(challenge, buffer4, header_size, digest_size)

\* recv() from one read that returned received_data (not empty) to the next
\* read or to the return.
AfterRead(challenge, rs, received_data) ==
    LET buffer == rs.recv_buffer \o received_data
    IN  CASE rs.pc = "fixed" -> FixedPhase(challenge, buffer)
          [] rs.pc = "digest" ->
                DigestPhase(challenge, buffer, rs.header_size, rs.digest_size)
          [] rs.pc = "header" ->
                HeaderPhase(challenge, buffer, rs.header_size, rs.digest_size,
                            rs.signed_digest)
          [] OTHER ->
                ContentPhase(challenge, buffer, rs.header_size, rs.digest_size,
                             rs.signed_digest, rs.header_bytes)

(***************************************************************************)
(* State.                                                                  *)
(***************************************************************************)
Endpoints == {"client", "server"}
Peer(e) == IF e = "client" THEN "server" ELSE "client"

VARIABLES
    socket,       \* self.socket of each endpoint: "None", "opened" (created, not
                  \* connected), "connected", "closed"
    host_socket,  \* QOSSTServer.host_socket: "unset", "bound", "listening", "closed"
    backlog,      \* connections established with the listening socket, not yet accepted
    selector,     \* what each endpoint's selector has registered
    blocking,     \* whether self.socket is in blocking mode
    challenge,    \* self.challenge
    wire,         \* bytes written to the connection towards each endpoint, not yet read
    eof,          \* the other party has closed: reads past the wire's bytes return b""
    rs,           \* where each endpoint is inside recv() / connect(), with recv's locals
    ret,          \* the call in progress or last finished at each endpoint, as the caller sees it
    sent,         \* every frame send() has written: [to, code, data, challenge,
                  \* next_challenge, at, len] (at: its offset in the stream)
    sess,         \* the current run of transfers since a bootstrap (observation only)
    net           \* the network: draws (challenges drawn), short (short reads it
                  \* may still make), rpos (bytes each endpoint has read), what
                  \* it has altered, replayed and crafted, accepted (the
                  \* next_challenge of every frame an endpoint accepted); and
                  \* what an observer of both endpoints has seen: ir (the
                  \* number of challenges drawn when an IDENTIFICATION_REQUEST
                  \* was last accepted, -1 if none was), rej (whether a sent
                  \* frame was rejected and no IDENTIFICATION_REQUEST accepted
                  \* since), bad and badL (see Observed), fresh (the offset
                  \* in the stream towards the server from which on the
                  \* frames are those of a client constructed after the
                  \* first, -1 while the first client lives)

vars == <<socket, host_socket, backlog, selector, blocking, challenge, wire, eof,
          rs, ret, sent, sess, net>>

\* The caller's view of a call.  op: the method; out: "pending", "return" or
\* "raise"; pre/post: self.challenge at the call and at its end; sock:
\* self.socket at the call.  For recv(): from, taken: the offset in the stream
\* of the first byte it read and the number of bytes it read; alt: it read
\* bytes of an altered frame; replay: it read bytes of a replayed frame (the
\* offset at which that frame was first sent, plus one).
Call(op, res, pre, post, sock) ==
    [op |-> op, out |-> res.out, exc |-> res.exc, code |-> res.code,
     data |-> res.data, stage |-> res.stage, header |-> res.header,
     pre |-> pre, post |-> post, sock |-> sock,
     from |-> 0, taken |-> 0, alt |-> FALSE, replay |-> 0]

NoCall == Call("none", NoResult, PyNone, PyNone, "None")

Pending(stage) == [NoResult EXCEPT !.out = "pending", !.stage = stage]
Plain(out, exc, stage) == [NoResult EXCEPT !.out = out, !.exc = exc, !.stage = stage]

Init ==
    /\ socket = [e \in Endpoints |-> "None"]
    /\ host_socket = "unset"
    /\ backlog = 0
    /\ selector = [e \in Endpoints |-> {}]
    /\ blocking = [e \in Endpoints |-> TRUE]
    /\ challenge = [e \in Endpoints |-> PyStr(0)]
    /\ wire = [e \in Endpoints |-> <<>>]
    /\ eof = [e \in Endpoints |-> FALSE]
    /\ rs = [e \in Endpoints |-> IdleRecv]
    /\ ret = [e \in Endpoints |-> NoCall]
    /\ sent = {}
    /\ sess = [boot |-> FALSE, inflight |-> FALSE, n |-> 0, used |-> {}]
    /\ net = [draws |-> 0, short |-> MaxShortReads,
              rpos |-> [e \in Endpoints |-> 0],
              altered |-> [e \in Endpoints |-> FALSE],
              replaying |-> [e \in Endpoints |-> 0],
              accepted |-> [e \in Endpoints |-> {}],
              crafted |-> {}, replays |-> 0, tampers |-> 0,
              ir |-> -1, rej |-> "none", bad |-> FALSE, badL |-> FALSE,
              fresh |-> -1]

\* The same with a network that never splits what it delivers.
InitWhole ==
    /\ socket = [e \in Endpoints |-> "None"]
    /\ host_socket = "unset"
    /\ backlog = 0
    /\ selector = [e \in Endpoints |-> {}]
    /\ blocking = [e \in Endpoints |-> TRUE]
    /\ challenge = [e \in Endpoints |-> PyStr(0)]
    /\ wire = [e \in Endpoints |-> <<>>]
    /\ eof = [e \in Endpoints |-> FALSE]
    /\ rs = [e \in Endpoints |-> IdleRecv]
    /\ ret = [e \in Endpoints |-> NoCall]
    /\ sent = {}
    /\ sess = [boot |-> FALSE, inflight |-> FALSE, n |-> 0, used |-> {}]
    /\ net = [draws |-> 0, short |-> 0,
              rpos |-> [e \in Endpoints |-> 0],
              altered |-> [e \in Endpoints |-> FALSE],
              replaying |-> [e \in Endpoints |-> 0],
              accepted |-> [e \in Endpoints |-> {}],
              crafted |-> {}, replays |-> 0, tampers |-> 0,
              ir |-> -1, rej |-> "none", bad |-> FALSE, badL |-> FALSE,
              fresh |-> -1]

Idle(e) == rs[e].pc = "idle"

(***************************************************************************)
(* Life cycle.                                                             *)
(***************************************************************************)
\* QOSSTClient.open
ClientOpen ==
    /\ Idle("client") /\ socket["client"] = "None"
    /\ socket' = [socket EXCEPT !["client"] = "opened"]
    /\ ret' = [ret EXCEPT !["client"] =
                 Call("open", Plain("return", "", ""), challenge["client"],
                      challenge["client"], "None")]
    /\ UNCHANGED <<host_socket, backlog, selector, blocking, challenge, wire,
                   eof, rs, sent, sess, net>>

\* QOSSTClient.connect, then QOSSTSocket.connect.  A connection that is made
\* is a new one: what was written to an earlier connection and not read is
\* lost with it.  The one client of the model stands for every peer the
\* server has in turn, so it connects anew only once the server has let go of
\* the earlier connection or waits in connect() for the next.
ClientConnect ==
    /\ Idle("client") /\ socket["client"] \in {"None", "opened"}
    /\ LET done(res) == Call("connect", res, challenge["client"],
                      challenge["client"], socket["client"])
       IN
       IF socket["client"] = "None"
       THEN /\ ret' = [ret EXCEPT !["client"] =
                         done(Plain("raise", "OSError", "precondition"))]
            /\ UNCHANGED <<socket, backlog, selector, blocking, wire, eof, net>>
       ELSE IF host_socket # "listening"
       THEN /\ ret' = [ret EXCEPT !["client"] =
                         done(Plain("raise", "ConnectionRefusedError", "connect"))]
            /\ UNCHANGED <<socket, backlog, selector, blocking, wire, eof, net>>
       ELSE /\ backlog = 0
            /\ socket["server"] # "connected" \/ rs["server"].pc = "accept"
            /\ socket' = [socket EXCEPT !["client"] = "connected"]
            /\ backlog' = 1
            /\ selector' = [selector EXCEPT !["client"] = @ \cup {"socket"}]
            /\ blocking' = [blocking EXCEPT !["client"] = FALSE]
            /\ wire' = [e \in Endpoints |-> <<>>]
            /\ eof' = [e \in Endpoints |-> FALSE]
            /\ net' = [net EXCEPT !.rpos = [e \in Endpoints |-> @[e] + Len(wire[e])]]
            /\ ret' = [ret EXCEPT !["client"] = done(Plain("return", "", ""))]
    /\ UNCHANGED <<host_socket, challenge, rs, sent, sess>>

\* QOSSTServer.open
ServerOpen ==
    /\ Idle("server") /\ host_socket = "unset"
    /\ host_socket' = "bound"
    /\ ret' = [ret EXCEPT !["server"] =
                 Call("open", Plain("return", "", ""), challenge["server"],
                      challenge["server"], "None")]
    /\ UNCHANGED <<socket, backlog, selector, blocking, challenge, wire, eof,
                   rs, sent, sess, net>>

\* QOSSTServer.connect up to its wait for a client
ServerListen ==
    /\ Idle("server") /\ host_socket = "bound" /\ socket["server"] = "None"
    /\ host_socket' = "listening"
    /\ selector' = [selector EXCEPT !["server"] = @ \cup {"host_socket"}]
    /\ rs' = [rs EXCEPT !["server"].pc = "accept"]
    /\ ret' = [ret EXCEPT !["server"] =
                 Call("connect", Pending("accept"), challenge["server"],
                      challenge["server"], "None")]
    /\ UNCHANGED <<socket, backlog, blocking, challenge, wire, eof, sent, sess, net>>

\* QOSSTServer.connect with a fault: the challenge is emptied for the peer
\* that is accepted.
ServerAcceptResetsChallenge ==
    /\ rs["server"].pc = "accept" /\ backlog > 0
    /\ backlog' = backlog - 1
    /\ socket' = [socket EXCEPT !["server"] = "connected"]
    /\ selector' = [selector EXCEPT !["server"] =
                       ((@ \ {"host_socket"}) \cup {"socket"})
                       \cup (IF "socket" \in @ THEN {"earlier_socket"} ELSE {})]
    /\ blocking' = [blocking EXCEPT !["server"] = FALSE]
    /\ challenge' = [challenge EXCEPT !["server"] = PyStr(0)]
    /\ rs' = [rs EXCEPT !["server"] = IdleRecv]
    /\ ret' = [ret EXCEPT !["server"] =
                 Call("connect", Plain("return", "", ""), challenge["server"],
                      PyStr(0), ret["server"].sock)]
    /\ UNCHANGED <<host_socket, wire, eof, sent, sess, net>>

\* QOSSTServer.connect from accept() on, then QOSSTSocket.connect.  accept()
\* overwrites self.socket: the handle of an earlier peer that was still
\* registered stays registered ("earlier_socket"), and open.
ServerAccept ==
    /\ rs["server"].pc = "accept" /\ backlog > 0
    /\ backlog' = backlog - 1
    /\ socket' = [socket EXCEPT !["server"] = "connected"]
    /\ selector' = [selector EXCEPT !["server"] =
                       ((@ \ {"host_socket"}) \cup {"socket"})
                       \cup (IF "socket" \in @ THEN {"earlier_socket"} ELSE {})]
    /\ blocking' = [blocking EXCEPT !["server"] = FALSE]
    /\ rs' = [rs EXCEPT !["server"] = IdleRecv]
    /\ ret' = [ret EXCEPT !["server"] =
                 Call("connect", Plain("return", "", ""), challenge["server"],
                      challenge["server"], ret["server"].sock)]
    /\ UNCHANGED <<host_socket, challenge, wire, eof, sent, sess, net>>

\* QOSSTSocket.close / QOSSTServer.close on a connected endpoint: the other
\* party's reads reach the end of the stream.
Close(e) ==
    /\ Idle(e) /\ socket[e] = "connected"
    /\ socket' = [socket EXCEPT ![e] = "closed"]
    /\ selector' = [selector EXCEPT ![e] = @ \ {"socket"}]
    /\ host_socket' = IF e = "server" THEN "closed" ELSE host_socket
    /\ eof' = [eof EXCEPT ![Peer(e)] = TRUE]
    /\ ret' = [ret EXCEPT ![e] =
                 Call("close", Plain("return", "", ""), challenge[e],
                      challenge[e], "connected")]
    /\ sess' = [sess EXCEPT !.boot = FALSE, !.inflight = FALSE, !.n = 0]
    /\ UNCHANGED <<backlog, blocking, challenge, wire, rs, sent, net>>

\* QOSSTClient.open on an endpoint that was closed: self.socket is a new
\* handle.
ClientReopen ==
    /\ Idle("client") /\ socket["client"] = "closed"
    /\ socket' = [socket EXCEPT !["client"] = "opened"]
    /\ ret' = [ret EXCEPT !["client"] =
                 Call("open", Plain("return", "", ""), challenge["client"],
                      challenge["client"], "closed")]
    /\ UNCHANGED <<host_socket, backlog, selector, blocking, challenge, wire,
                   eof, rs, sent, sess, net>>

\* QOSSTSocket.__init__ of another client, once the client before it has
\* closed: a new object, with no socket, an empty challenge and a selector of
\* its own.  It is the peer the server has next.
ClientNew ==
    /\ Idle("client") /\ socket["client"] = "closed"
    /\ socket' = [socket EXCEPT !["client"] = "None"]
    /\ challenge' = [challenge EXCEPT !["client"] = PyStr(0)]
    /\ selector' = [selector EXCEPT !["client"] = {}]
    /\ blocking' = [blocking EXCEPT !["client"] = TRUE]
    /\ net' = [net EXCEPT !.fresh = net.rpos["server"] + Len(wire["server"])]
    /\ ret' = [ret EXCEPT !["client"] =
                 Call("__init__", Plain("return", "", ""), PyStr(0), PyStr(0), "None")]
    /\ UNCHANGED <<host_socket, backlog, wire, eof, rs, sent, sess>>

\* QOSSTClient.connect on a connected endpoint, were the transport to connect
\* the handle again: QOSSTSocket.connect would register a handle the
\* selector holds already, and register() would raise KeyError.
ClientConnectAgainRegisters ==
    /\ Idle("client") /\ socket["client"] = "connected"
    /\ blocking' = [blocking EXCEPT !["client"] = FALSE]
    /\ ret' = [ret EXCEPT !["client"] =
                 Call("connect", Plain("raise", "KeyError", "register"),
                      challenge["client"], challenge["client"], "connected")]
    /\ UNCHANGED <<socket, host_socket, backlog, selector, challenge,
                   wire, eof, rs, sent, sess, net>>

\* QOSSTClient.connect on an endpoint that is connected already (the call
\* request() makes after a disconnection): self.socket is the handle of the
\* connection that was made, and connecting it again fails.
ClientConnectAgain ==
    /\ Idle("client") /\ socket["client"] = "connected"
    /\ ret' = [ret EXCEPT !["client"] =
                 Call("connect", Plain("raise", "OSError", "connect"),
                      challenge["client"], challenge["client"], "connected")]
    /\ UNCHANGED <<socket, host_socket, backlog, selector, blocking, challenge,
                   wire, eof, rs, sent, sess, net>>

\* QOSSTServer.connect called again, the listening handle being bound and
\* listening since the first call: up to its wait for a client.
ServerListenAgain ==
    /\ Idle("server") /\ host_socket = "listening"
    /\ socket["server"] \in {"None", "connected"}
    /\ selector' = [selector EXCEPT !["server"] = @ \cup {"host_socket"}]
    /\ rs' = [rs EXCEPT !["server"].pc = "accept"]
    /\ ret' = [ret EXCEPT !["server"] =
                 Call("connect", Pending("accept"), challenge["server"],
                      challenge["server"], socket["server"])]
    /\ UNCHANGED <<socket, host_socket, backlog, blocking, challenge, wire, eof,
                   sent, sess, net>>

\* QOSSTSocket.close / QOSSTServer.close on an endpoint that is not connected:
\* never opened, opened, or closed before.  QOSSTServer.close reads
\* self.host_socket, which only open() sets.  QOSSTSocket.close leaves
\* self.socket as it is, so a second close() finds the closed handle:
\* unregister() cannot look it up and raises ValueError, which close() does
\* not catch.  On a handle that was never registered unregister() raises the
\* KeyError that close() catches.
CloseUnconnected(e) ==
    /\ Idle(e) /\ socket[e] # "connected"
    /\ LET done(res) == Call("close", res, challenge[e], challenge[e], socket[e])
       IN
       IF e = "server" /\ host_socket = "unset"
       THEN /\ ret' = [ret EXCEPT ![e] =
                         done(Plain("raise", "AttributeError", "host_socket"))]
            /\ UNCHANGED <<socket, host_socket, backlog, eof>>
       ELSE /\ host_socket' = IF e = "server" THEN "closed" ELSE host_socket
            /\ backlog' = IF e = "server" THEN 0 ELSE backlog
            /\ eof' = IF e = "server" /\ backlog > 0
                      THEN [eof EXCEPT !["client"] = TRUE] ELSE eof
            /\ IF socket[e] = "closed"
               THEN /\ ret' = [ret EXCEPT ![e] =
                                 done(Plain("raise", "ValueError", "unregister"))]
                    /\ UNCHANGED socket
               ELSE /\ ret' = [ret EXCEPT ![e] = done(Plain("return", "", ""))]
                    /\ socket' = [socket EXCEPT ![e] =
                                     IF @ = "opened" THEN "closed" ELSE @]
    /\ UNCHANGED <<selector, blocking, challenge, wire, rs, sent, sess, net>>

(***************************************************************************)
(* send().                                                                 *)
(***************************************************************************)
\* What the callers of the model pass to send(): an identification request
\* with the payload {"version": "0.2"}, and a request with no payload (None)
\* and with the empty mapping.
VersionData == PyDict([version |-> PyStr(-2)])
SendInputs ==
    {<<IDENTIFICATION_REQUEST, VersionData>>, <<QIE_REQUEST, PyNone>>,
     <<QIE_REQUEST, PyDict(NoItems)>>}

\* What the endpoints send where the claims checked are about the life cycle
\* or the end of the stream, which do not look at what is sent.
LifeInputs == {<<IDENTIFICATION_REQUEST, VersionData>>}

\* The first code of each band.
BandFirstCodes ==
    {code \in QOSSTCodes :
        \E g \in DOMAIN Bands :
            code \in Bands[g] /\ \A d \in QOSSTCodes \cap Bands[g] : code <= d}

\* A caller that passes send() members of either enumeration.
SendCodesUntyped == BandFirstCodes \cup QOSSTErrorCodes

\* The codes send(code: QOSSTCodes, ...) is declared to take are the members
\* of QOSSTCodes; the callers of the model pass the first code of each band.
SendCodes == BandFirstCodes

\* What the endpoints send where the claim checked is about the codes: a
\* code of every band, with no payload.
CodeInputs == {<<code, PyNone>> : code \in SendCodes}

\* What the endpoints send where the claim checked is about the challenges:
\* an identification request and a request with no payload.
DivergeInputs == {<<IDENTIFICATION_REQUEST, VersionData>>, <<QIE_REQUEST, PyNone>>}

\* Nothing is in flight and nobody is inside a call.
Quiet == \A e \in Endpoints : wire[e] = <<>> /\ Idle(e)

\* The run of transfers after a send that reached the wire.
SessAfterSend(code) ==
    LET used == sess.used \cup {challenge[e] : e \in Endpoints}
    IN  IF code = IDENTIFICATION_REQUEST /\ Quiet
        THEN [boot |-> TRUE, inflight |-> TRUE, n |-> 0, used |-> used]
        ELSE IF sess.boot /\ ~sess.inflight /\ Quiet
        THEN [sess EXCEPT !.inflight = TRUE, !.used = used]
        ELSE [boot |-> FALSE, inflight |-> FALSE, n |-> 0, used |-> used]

\* BlockingAfterSend with a fault: the handle is set non-blocking whether
\* sendall raised or not.
BlockingAfterSendRestored(raised) == FALSE

\* The mode of the handle after send(): setblocking(True) comes first, and
\* setblocking(False) after sendall, so it is reached only when sendall
\* did not raise.
BlockingAfterSend(raised) == raised

\* QOSSTSocket.send(code, data)
Send(e, code, data) ==
    /\ Idle(e) /\ socket[e] # "closed"
    /\ LET next_challenge == PyStr(net.draws + 1)
           done(res, post) == Call("send", res, challenge[e], post, socket[e])
       IN
       IF socket[e] = "None"
       THEN /\ ret' = [ret EXCEPT ![e] =
                         done(Plain("raise", "OSError", "precondition"), challenge[e])]
            /\ UNCHANGED <<blocking, challenge, wire, sent, sess, net>>
       ELSE /\ net.draws < MaxSends
            /\ challenge' = [challenge EXCEPT ![e] =
                                SendChallenge(challenge[e], next_challenge)]
            /\ net' = [net EXCEPT !.draws = @ + 1]
            /\ IF socket[e] = "opened"
               THEN \* sendall on a socket that is not connected
                    /\ ret' = [ret EXCEPT ![e] =
                                 done(Plain("raise", "OSError", "sendall"),
                                      challenge'[e])]
                    /\ blocking' = [blocking EXCEPT ![e] = BlockingAfterSend(TRUE)]
                    /\ sess' = [sess EXCEPT !.boot = FALSE, !.inflight = FALSE, !.n = 0]
                    /\ UNCHANGED <<wire, sent>>
               ELSE IF socket[Peer(e)] = "closed"
               THEN \* the other party is gone: the bytes are lost, and sendall
                    \* either does not notice or raises
                    /\ \E noticed \in BOOLEAN :
                         /\ ret' = [ret EXCEPT ![e] =
                                      done(IF noticed
                                           THEN Plain("raise", "BrokenPipeError", "sendall")
                                           ELSE Plain("return", "", ""), challenge'[e])]
                         /\ blocking' = [blocking EXCEPT ![e] =
                                           BlockingAfterSend(noticed)]
                    /\ sess' = [sess EXCEPT !.boot = FALSE, !.inflight = FALSE, !.n = 0]
                    /\ UNCHANGED <<wire, sent>>
               ELSE /\ wire' = [wire EXCEPT ![Peer(e)] =
                                  @ \o FrameBytes(code, data, challenge[e], next_challenge)]
                    /\ sent' = sent \cup {[to |-> Peer(e), code |-> code, data |-> data,
                                           challenge |-> challenge[e],
                                           next_challenge |-> next_challenge,
                                           at |-> net.rpos[Peer(e)] + Len(wire[Peer(e)]),
                                           len |-> Len(FrameBytes(code, data, challenge[e],
                                                                  next_challenge))]}
                    /\ ret' = [ret EXCEPT ![e] =
                                 done(Plain("return", "", ""), challenge'[e])]
                    /\ blocking' = [blocking EXCEPT ![e] = BlockingAfterSend(FALSE)]
                    /\ sess' = SessAfterSend(code)
    /\ UNCHANGED <<socket, host_socket, backlog, selector, eof, rs>>

(***************************************************************************)
(* recv().                                                                 *)
(***************************************************************************)
\* The call of recv(): the test of self.socket, then the wait on the selector.
RecvCall(e) ==
    /\ Idle(e) /\ socket[e] # "closed"
    /\ IF socket[e] = "None"
       THEN /\ ret' = [ret EXCEPT ![e] =
                         Call("recv", Plain("raise", "OSError", "precondition"),
                              challenge[e], challenge[e], "None")]
            /\ UNCHANGED rs
       ELSE /\ ret' = [ret EXCEPT ![e] =
                         [Call("recv", Pending("select"), challenge[e],
                               challenge[e], socket[e])
                            EXCEPT !.from = net.rpos[e]]]
            /\ rs' = [rs EXCEPT ![e].pc = "select"]
    /\ UNCHANGED <<socket, host_socket, backlog, selector, blocking, challenge,
                   wire, eof, sent, sess, net>>

\* A transport whose reads do not return at the end of the stream.
ReadSizesNoEof(e) ==
    {n \in 1..Min(READING_BUFFER, Len(wire[e])) :
        n = Min(READING_BUFFER, Len(wire[e])) \/ net.short > 0}

\* What self.socket.recv(READING_BUFFER) can return now, as a number of bytes:
\* 0 is b"" (the end of the stream, or a ConnectionError); a read that returns
\* less than it could is one of the network's short reads.
ReadSizes(e) ==
    IF wire[e] # <<>>
    THEN {n \in 1..Min(READING_BUFFER, Len(wire[e])) :
            n = Min(READING_BUFFER, Len(wire[e])) \/ net.short > 0}
    ELSE IF eof[e] THEN {0} ELSE {}

\* The run of transfers after recv() returned res.
SessAfterRecv(res) ==
    IF res.stage = "accepted" /\ sess.boot /\ sess.inflight
    THEN [sess EXCEPT !.inflight = FALSE, !.n = @ + 1]
    ELSE [sess EXCEPT !.boot = FALSE, !.inflight = FALSE, !.n = 0]

\* A QOSSTServer.recv that lets the peer's handle be.
PeerGoneIgnored(e, res) == FALSE

\* The end of QOSSTServer.recv: the result for which it unregisters, closes
\* and forgets self.socket.
PeerGone(e, res) ==
    e = "server" /\ res.out = "return" /\ res.code = SOCKET_DISCONNECTION

\* The codes with which recv() rejects a frame it has read.
RejectionCodes == {FRAME_ERROR, UNKOWN_CODE, AUTHENTICATION_FAILURE}

\* What the observer notes when the recv() of e, which read taken bytes (alt:
\* some of them altered in flight), ends with res.
\*   rej   "none" when an IDENTIFICATION_REQUEST is accepted.  When a frame
\*         that send() wrote is rejected: "diverged" if no
\*         IDENTIFICATION_REQUEST was accepted since that frame was sent (or
\*         if rej was "diverged" already), else "late".
\*   bad   a frame other than an IDENTIFICATION_REQUEST, read as send() wrote
\*         it, got another result than AUTHENTICATION_FAILURE while rej was
\*         "diverged"; badL: the same while rej was "diverged" or "late".
Observed(e, res, taken, alt) ==
    LET first == {f \in sent : f.to = e /\ f.at = ret[e].from /\ taken > 0}
        rejected == first # {} /\ res.out = "return" /\ res.code \in RejectionCodes
        late == \A f \in first : net.ir >= f.next_challenge.v
        refused == res.out = "return" /\ res.code = AUTHENTICATION_FAILURE
        other == \E f \in first : f.code # IDENTIFICATION_REQUEST /\ ~alt /\ ~refused
    IN  IF res.stage = "accepted" /\ res.code = IDENTIFICATION_REQUEST
        THEN [ir |-> net.draws, rej |-> "none", bad |-> net.bad, badL |-> net.badL]
        ELSE [ir |-> net.ir,
              rej |-> IF ~rejected THEN net.rej
                      ELSE IF ~late \/ net.rej = "diverged" THEN "diverged"
                      ELSE "late",
              bad |-> net.bad \/ (net.rej = "diverged" /\ other),
              badL |-> net.badL \/ (net.rej # "none" /\ other)]

\* One read of recv() in the loop of phase, and what follows it up to the next
\* read or the return (with the end of QOSSTServer.recv).  watch: the observer
\* notes the result.
ReadObserved(e, phase, watch) ==
    /\ socket[e] = "connected"
    /\ \E n \in ReadSizes(e) :
       \E st \in {IF n = 0 THEN Done(EofResult(phase, challenge[e]))
                  ELSE AfterRead(challenge[e], [rs[e] EXCEPT !.pc = phase],
                                 SubSeq(wire[e], 1, n))} :
         LET res == st.res
             rest == SubSeq(wire[e], n + 1, Len(wire[e]))
             taken == ret[e].taken + n
             alt == ret[e].alt \/ (n > 0 /\ net.altered[e])
             replay == IF n > 0 /\ net.replaying[e] # 0 THEN net.replaying[e]
                       ELSE ret[e].replay
             short == IF n > 0 /\ n < Min(READING_BUFFER, Len(wire[e])) THEN 1 ELSE 0
             gone == PeerGone(e, res)
         IN  /\ wire' = [wire EXCEPT ![e] = rest]
             /\ rs' = [rs EXCEPT ![e] = st.rs]
             /\ \E seen \in {IF watch /\ st.rs.pc = "idle"
                              THEN Observed(e, res, taken, alt)
                              ELSE [ir |-> net.ir, rej |-> net.rej,
                                    bad |-> net.bad, badL |-> net.badL]} :
                  net' = [net EXCEPT
                          !.short = @ - short,
                          !.rpos[e] = @ + n,
                          !.altered[e] = @ /\ rest # <<>>,
                          !.replaying[e] = IF rest = <<>> THEN 0 ELSE @,
                          !.accepted[e] = IF res.stage = "accepted"
                                          THEN @ \cup {res.header["next_challenge"]}
                                          ELSE @,
                          !.ir = seen.ir, !.rej = seen.rej,
                          !.bad = seen.bad, !.badL = seen.badL]
             /\ IF st.rs.pc # "idle"
                THEN /\ ret' = [ret EXCEPT ![e].taken = taken, ![e].alt = alt,
                                           ![e].replay = replay,
                                           ![e].stage = st.rs.pc]
                     /\ blocking' = [blocking EXCEPT ![e] = TRUE]
                     /\ UNCHANGED <<challenge, socket, selector, sess>>
                ELSE /\ ret' = [ret EXCEPT ![e] =
                                  [Call("recv", res, ret[e].pre, res.challenge,
                                        ret[e].sock)
                                     EXCEPT !.from = ret[e].from, !.taken = taken,
                                            !.alt = alt, !.replay = replay]]
                     /\ challenge' = [challenge EXCEPT ![e] = res.challenge]
                     /\ blocking' = [blocking EXCEPT ![e] =
                                       res.out = "raise"
                                       \/ res.code = SOCKET_DISCONNECTION]
                     /\ socket' = IF gone THEN [socket EXCEPT ![e] = "None"]
                                  ELSE socket
                     /\ selector' = IF gone
                                    THEN [selector EXCEPT ![e] = @ \ {"socket"}]
                                    ELSE selector
                     /\ sess' = SessAfterRecv(res)
    /\ UNCHANGED <<host_socket, backlog, eof, sent>>

Read(e, phase) == ReadObserved(e, phase, FALSE)

\* The first loop (it starts once the selector reports the socket readable).
ReadFixed(e) ==
    /\ rs[e].pc \in {"select", "fixed"}
    /\ rs[e].pc = "select" => "socket" \in selector[e]
    /\ Read(e, "fixed")

ReadDigest(e) == rs[e].pc = "digest" /\ Read(e, "digest")

ReadHeader(e) == rs[e].pc = "header" /\ Read(e, "header")

ReadContent(e) == rs[e].pc = "content" /\ Read(e, "content")

\* The same reads, noted by the observer.
WatchedReadFixed(e) ==
    /\ rs[e].pc \in {"select", "fixed"}
    /\ rs[e].pc = "select" => "socket" \in selector[e]
    /\ ReadObserved(e, "fixed", TRUE)

WatchedReadContent(e) == rs[e].pc = "content" /\ ReadObserved(e, "content", TRUE)

\* The read recv() at e is at, in whichever loop.
ReadStep(e) == ReadFixed(e) \/ ReadDigest(e) \/ ReadHeader(e) \/ ReadContent(e)

\* recv() at e waits on the selector or is in one of its four read loops.
InRecv(e) == rs[e].pc \in {"select", "fixed", "digest", "header", "content"}

\* recv() at e is at a read that returns now: the selector has the handle and
\* reports it readable, or the blocking read has bytes or the end of the
\* stream to return.
CanRead(e) ==
    /\ InRecv(e) /\ socket[e] = "connected"
    /\ rs[e].pc = "select" => "socket" \in selector[e]
    /\ ReadSizes(e) # {}

\* This step is a read of recv() at e: it took bytes from the stream or
\* ended the call.
ReadMade(e) == InRecv(e) /\ (net'.rpos[e] # net.rpos[e] \/ rs'[e].pc = "idle")

(***************************************************************************)
(* QOSSTClient.request(code, data): send(), recv(), and after a            *)
(* SOCKET_DISCONNECTION connect() and request() again.  The client of      *)
(* SpecRequest makes no call but through request(), so where request() is  *)
(* can be read from the last call made on the client.                      *)
(***************************************************************************)
RequestPc ==
    LET r == ret["client"]
    IN  IF r.op = "send" /\ r.out = "return" THEN "recv"
        ELSE IF r.op = "recv" /\ r.out = "pending" THEN "receiving"
        ELSE IF r.op = "recv" /\ r.out = "return" /\ r.code = SOCKET_DISCONNECTION
        THEN "connect"
        ELSE "none"

\* request(code, data) is called: self.send(code, data)
RequestCall(code, data) == RequestPc = "none" /\ Send("client", code, data)

\* received_code, received_data = self.recv(); its reads are ReadFixed etc.
RequestRecv == RequestPc = "recv" /\ RecvCall("client")

\* if received_code == SOCKET_DISCONNECTION: self.connect(), on the handle
\* the client has had since open().  request(code, data) would follow.
RequestReconnect == RequestPc = "connect" /\ ClientConnectAgain

(***************************************************************************)
(* The network and a party that does not follow send().  The challenge and *)
(* the signature travel in clear, and NoneAuthenticator holds no secret:   *)
(* whoever can write to the connection can write any of these bytes.       *)
(***************************************************************************)
\* No frame is being read by e and none is waiting to be read.
NoFrameInProgress(e) == wire[e] = <<>> /\ rs[e].pc \in {"idle", "select"}

\* The network delivers again a frame it captured, which e has accepted before.
Replay(e) ==
    /\ socket[e] = "connected" /\ ~eof[e]
    /\ NoFrameInProgress(e)
    /\ net.replays < MaxReplays
    /\ \E f \in sent :
         /\ f.to = e
         /\ f.next_challenge \in net.accepted[e]
         /\ wire' = [wire EXCEPT ![e] =
                       FrameBytes(f.code, f.data, f.challenge, f.next_challenge)]
         /\ net' = [net EXCEPT !.replays = @ + 1, !.replaying[e] = f.at + 1]
    /\ UNCHANGED <<socket, host_socket, backlog, selector, blocking, challenge,
                   eof, rs, ret, sent, sess>>

\* The bytes one byte of a header or of a payload can be changed into.
Alterations(b) ==
    {JunkByte, BadByte} \cup (IF b.t = "kv" THEN {[b EXCEPT !.v = @ + 1]} ELSE {})

\* The network changes one byte of the variable header or of the payload of
\* the frame on its way to e, and leaves the fixed header and the signature.
Tamper(e) ==
    /\ socket[e] = "connected"
    /\ rs[e].pc \in {"idle", "select"}
    /\ net.tampers < MaxTampers /\ ~net.altered[e]
    /\ \E f \in sent :
         /\ f.to = e /\ f.at = net.rpos[e]
         /\ wire[e] = FrameBytes(f.code, f.data, f.challenge, f.next_challenge)
         /\ \E i \in (4 + DIGEST_SIZE + 1)..f.len :
              \E b \in Alterations(wire[e][i]) :
                 /\ wire' = [wire EXCEPT ![e][i] = b]
                 /\ net' = [net EXCEPT !.tampers = @ + 1, !.altered[e] = TRUE]
    /\ UNCHANGED <<socket, host_socket, backlog, selector, blocking, challenge,
                   eof, rs, ret, sent, sess>>

\* What can be wrong with a frame that send() did not write.  cut_*: the frame
\* stops inside the named part (the fixed header, the signature, the header,
\* the payload).
Defects ==
    {"none", "header_junk", "header_bad", "header_number", "missing_key",
     "length_str", "length_negative", "length_long", "payload_junk",
     "payload_bad", "bad_signature", "cut_fixed", "cut_digest", "cut_header",
     "cut_content"}

\* What the next_challenge field of such a frame can be other than a string
\* that has the form of a challenge: a string of another length ("abc"), a
\* JSON number, null.
ChallengeDefects == {"next_short", "next_number", "next_null"}

\* The code values of such frames: two protocol codes, 999, and the value of
\* a local error code.
CraftCodes == {IDENTIFICATION_REQUEST, QIE_REQUEST, 999, AUTHENTICATION_FAILURE}

\* The frames written in the model: every code with a right and with a wrong
\* challenge in a frame without defect, every defect in a QIE_REQUEST frame.
CraftInputs ==
    {<<code, ok, "none">> : code \in CraftCodes, ok \in BOOLEAN}
    \cup {<<QIE_REQUEST, TRUE, defect>> : defect \in Defects \ {"none"}}

\* Frames that are well formed and signed, carry the challenge the receiver
\* expects or not, and a next_challenge field of any kind.
AdoptInputs ==
    {<<code, ok, defect>> : code \in {IDENTIFICATION_REQUEST, QIE_REQUEST},
                            ok \in BOOLEAN,
                            defect \in ChallengeDefects \cup {"none"}}

\* The bytes of a frame with the payload {"version": "0.2"} and one defect.
CraftedBytes(code, sent_challenge, next_challenge, defect) ==
    LET data_bytes ==
            CASE defect = "payload_junk" -> <<JunkByte>>
              [] defect = "payload_bad" -> <<BadByte>>
              [] OTHER -> DumpsData(VersionData)
        content_length ==
            CASE defect = "length_str" -> PyStr(-1)
              [] defect = "length_negative" -> PyInt(-1)
              [] defect = "length_long" -> PyInt(Len(data_bytes) + 1)
              [] OTHER -> PyInt(Len(data_bytes))
        next_field ==
            CASE defect = "next_short" -> PyStr(-3)
              [] defect = "next_number" -> PyInt(7)
              [] defect = "next_null" -> PyNone
              [] OTHER -> next_challenge
        header == [VariableHeader(code, 0, sent_challenge, next_field)
                     EXCEPT !["content_length"] = content_length]
        variable_header_bytes ==
            CASE defect = "header_junk" -> <<JunkByte>>
              [] defect = "header_bad" -> <<BadByte>>
              [] defect = "header_number" -> <<NumByte(5)>>
              [] defect = "missing_key" -> DumpsDict(header, SliceTo(HeaderKeys, 3))
              [] OTHER -> DumpsDict(header, HeaderKeys)
        frame == Assemble(variable_header_bytes, data_bytes)
        fixed_and_digest == 4 + DIGEST_SIZE
    IN  CASE defect = "bad_signature" ->
                SliceTo(frame, 4) \o sign_digest(Sha256(<<JunkByte>>))
                    \o SliceFrom(frame, fixed_and_digest)
          [] defect = "cut_fixed" -> SliceTo(frame, 2)
          [] defect = "cut_digest" -> SliceTo(frame, fixed_and_digest - 1)
          [] defect = "cut_header" -> SliceTo(frame, fixed_and_digest + 2)
          [] defect = "cut_content" ->
                SliceTo(frame, fixed_and_digest + Len(variable_header_bytes))
          [] OTHER -> frame

\* The other party writes a frame of its own making to the connection of e.
\* ok: the frame carries the challenge e expects.
Inject(e, code, ok, defect) ==
    /\ socket[e] = "connected" /\ socket[Peer(e)] = "connected"
    /\ NoFrameInProgress(e)
    /\ Cardinality(net.crafted) < MaxCrafts
    /\ LET ch == IF ok THEN challenge[e] ELSE PyStr(900)
           nx == PyStr(901 + Cardinality(net.crafted))
           bytes == CraftedBytes(code, ch, nx, defect)
       IN  /\ wire' = [wire EXCEPT ![e] = bytes]
           /\ net' = [net EXCEPT !.crafted = @ \cup
                        {[to |-> e, code |-> code, challenge |-> ch,
                          next_challenge |-> nx, defect |-> defect,
                          at |-> net.rpos[e], len |-> Len(bytes)]}]
    /\ UNCHANGED <<socket, host_socket, backlog, selector, blocking, challenge,
                   eof, rs, ret, sent, sess>>

(***************************************************************************)
(* Specification: the two endpoints and a network that delivers the bytes  *)
(* in pieces of any size.                                                  *)
(***************************************************************************)
Next ==
    \/ ClientOpen
    \/ ClientConnect
    \/ ServerOpen
    \/ ServerListen
    \/ ServerAccept
    \/ \E e \in Endpoints : Close(e)
    \/ \E e \in Endpoints, c \in SendInputs : Send(e, c[1], c[2])
    \/ \E e \in Endpoints : RecvCall(e)
    \/ \E e \in Endpoints : ReadFixed(e)
    \/ \E e \in Endpoints : ReadDigest(e)
    \/ \E e \in Endpoints : ReadHeader(e)
    \/ \E e \in Endpoints : ReadContent(e)

Spec == Init /\ [][Next]_vars

\* The endpoints, each sending identification requests, and a network that
\* delivers the bytes in pieces of any size.
NextLive ==
    \/ ClientOpen
    \/ ClientConnect
    \/ ServerOpen
    \/ ServerListen
    \/ ServerAccept
    \/ \E e \in Endpoints : Close(e)
    \/ \E e \in Endpoints, c \in LifeInputs : Send(e, c[1], c[2])
    \/ \E e \in Endpoints : RecvCall(e)
    \/ \E e \in Endpoints : ReadFixed(e)
    \/ \E e \in Endpoints : ReadDigest(e)
    \/ \E e \in Endpoints : ReadHeader(e)
    \/ \E e \in Endpoints : ReadContent(e)

\* The same, with the scheduling recv() relies on: the selector reports a
\* readable handle and a blocking read returns once bytes or the end of the
\* stream are there, so no read that can be made is put off for ever.
SpecLiveWF ==
    /\ Init /\ [][NextLive]_vars
    /\ \A e \in Endpoints : WF_vars(ReadStep(e))

\* SpecLiveWF with its fairness written out, WF_vars(A) being
\* []<>~(ENABLED <<A>>_vars) \/ []<><<A>>_vars: ENABLED <<ReadStep(e)>>_vars
\* is CanRead(e), and the steps of Next that are steps of ReadStep(e) are
\* those ReadMade(e) holds of.
SpecLive ==
    /\ Init /\ [][NextLive]_vars
    /\ \A e \in Endpoints : []<>~CanRead(e) \/ []<><<ReadMade(e)>>_vars

\* The endpoints and a network that delivers whole what was written.
NextWhole ==
    \/ ClientOpen
    \/ ClientConnect
    \/ ServerOpen
    \/ ServerListen
    \/ ServerAccept
    \/ \E e \in Endpoints : Close(e)
    \/ \E e \in Endpoints, c \in SendInputs : Send(e, c[1], c[2])
    \/ \E e \in Endpoints : RecvCall(e)
    \/ \E e \in Endpoints : ReadFixed(e)

SpecWhole == InitWhole /\ [][NextWhole]_vars

\* The endpoints and a network that delivers whole what was written, and may
\* deliver a captured frame again.
NextReplay ==
    \/ ClientOpen
    \/ ClientConnect
    \/ ServerOpen
    \/ ServerListen
    \/ ServerAccept
    \/ \E e \in Endpoints, c \in SendInputs : Send(e, c[1], c[2])
    \/ \E e \in Endpoints : RecvCall(e)
    \/ \E e \in Endpoints : ReadFixed(e)
    \/ \E e \in Endpoints : Replay(e)

SpecReplay == InitWhole /\ [][NextReplay]_vars

\* The endpoints and a network that delivers whole what was written and may
\* alter a frame in flight.
NextTamper ==
    \/ ClientOpen
    \/ ClientConnect
    \/ ServerOpen
    \/ ServerListen
    \/ ServerAccept
    \/ \E e \in Endpoints, c \in SendInputs : Send(e, c[1], c[2])
    \/ \E e \in Endpoints : RecvCall(e)
    \/ \E e \in Endpoints : ReadFixed(e)
    \/ \E e \in Endpoints : ReadContent(e)
    \/ \E e \in Endpoints : Tamper(e)

SpecTamper == InitWhole /\ [][NextTamper]_vars

\* The endpoints, each receiving from a party that writes frames of its own
\* making and may close the connection.
NextInject ==
    \/ ClientOpen
    \/ ClientConnect
    \/ ServerOpen
    \/ ServerListen
    \/ ServerAccept
    \/ \E e \in Endpoints : Close(e)
    \/ \E e \in Endpoints, c \in CraftInputs : Inject(e, c[1], c[2], c[3])
    \/ \E e \in Endpoints : RecvCall(e)
    \/ \E e \in Endpoints : ReadFixed(e)
    \/ \E e \in Endpoints : ReadDigest(e)
    \/ \E e \in Endpoints : ReadHeader(e)
    \/ \E e \in Endpoints : ReadContent(e)

SpecInject == InitWhole /\ [][NextInject]_vars

\* The endpoints, a network that delivers whole what was written and may
\* alter a frame in flight, and an observer of the results of recv().
NextDiverge ==
    \/ ClientOpen
    \/ ClientConnect
    \/ ServerOpen
    \/ ServerListen
    \/ ServerAccept
    \/ \E e \in Endpoints, c \in DivergeInputs : Send(e, c[1], c[2])
    \/ \E e \in Endpoints : RecvCall(e)
    \/ \E e \in Endpoints : WatchedReadFixed(e)
    \/ \E e \in Endpoints : WatchedReadContent(e)
    \/ \E e \in Endpoints : Tamper(e)

SpecDiverge == InitWhole /\ [][NextDiverge]_vars

\* The endpoints, each receiving from a party that writes well-formed frames
\* with a next_challenge field of its choice, and sending frames themselves.
NextAdopt ==
    \/ ClientOpen
    \/ ClientConnect
    \/ ServerOpen
    \/ ServerListen
    \/ ServerAccept
    \/ \E e \in Endpoints, c \in AdoptInputs : Inject(e, c[1], c[2], c[3])
    \/ \E e \in Endpoints, c \in LifeInputs : Send(e, c[1], c[2])
    \/ \E e \in Endpoints : RecvCall(e)
    \/ \E e \in Endpoints : ReadFixed(e)

SpecAdopt == InitWhole /\ [][NextAdopt]_vars

\* The endpoints through their whole life: every call of the life cycle in
\* every state, a client that opens and connects again after it closed, a
\* server that calls connect() again; the network delivers whole what was
\* written.
NextLife ==
    \/ ClientOpen
    \/ ClientReopen
    \/ ClientConnect
    \/ ServerOpen
    \/ ServerListen
    \/ ServerListenAgain
    \/ ServerAccept
    \/ \E e \in Endpoints : Close(e)
    \/ \E e \in Endpoints : CloseUnconnected(e)
    \/ \E e \in Endpoints, c \in LifeInputs : Send(e, c[1], c[2])
    \/ \E e \in Endpoints : RecvCall(e)
    \/ \E e \in Endpoints : ReadFixed(e)

SpecLife == InitWhole /\ [][NextLife]_vars

\* A server that has one peer after another: a client closes, the server's
\* recv() finds the disconnection, the server calls connect() again and a
\* client constructed anew connects; the network delivers whole what was
\* written.
NextPeers ==
    \/ ClientOpen
    \/ ClientConnect
    \/ ClientNew
    \/ ServerOpen
    \/ ServerListen
    \/ ServerListenAgain
    \/ ServerAccept
    \/ Close("client")
    \/ \E e \in Endpoints, c \in DivergeInputs : Send(e, c[1], c[2])
    \/ \E e \in Endpoints : RecvCall(e)
    \/ \E e \in Endpoints : ReadFixed(e)

SpecPeers == InitWhole /\ [][NextPeers]_vars

\* A client that talks through request() only, a server that sends,
\* receives and may close; the network delivers whole what was written.
NextRequest ==
    \/ ClientOpen
    \/ ClientConnect
    \/ ServerOpen
    \/ ServerListen
    \/ ServerAccept
    \/ Close("server")
    \/ \E c \in SendInputs : RequestCall(c[1], c[2])
    \/ RequestRecv
    \/ RequestReconnect
    \/ \E c \in SendInputs : Send("server", c[1], c[2])
    \/ RecvCall("server")
    \/ \E e \in Endpoints : ReadFixed(e)

SpecRequest == InitWhole /\ [][NextRequest]_vars

\* The endpoints sending frames of every code; the network delivers whole
\* what was written.
NextCodes ==
    \/ ClientOpen
    \/ ClientConnect
    \/ ServerOpen
    \/ ServerListen
    \/ ServerAccept
    \/ \E e \in Endpoints, c \in CodeInputs : Send(e, c[1], c[2])
    \/ \E e \in Endpoints : RecvCall(e)
    \/ \E e \in Endpoints : ReadFixed(e)

SpecCodes == InitWhole /\ [][NextCodes]_vars

(***************************************************************************)
(* Properties.                                                             *)
(***************************************************************************)
\* recv() at e has ended, by a return or by an exception.
RecvDone(e) == ret[e].op = "recv" /\ ret[e].out \in {"return", "raise"}

\* The recv() that ended at e read the bytes of frame f of sent, all of them
\* and no others.
ReadSent(e, f) ==
    RecvDone(e) /\ f.to = e /\ ret[e].from = f.at /\ ret[e].taken = f.len

\* The recv() that ended at e read the crafted frame f from its first byte.
ReadCrafted(e, f) ==
    RecvDone(e) /\ f.to = e /\ ret[e].from = f.at /\ ret[e].taken > 0

\* C1 (as the specification states it): a frame written by send(code, payload)
\* and read by a recv() whose pending challenge equals the frame's challenge
\* makes recv() return exactly (code, payload).
C1_RoundTrip ==
    \A e \in Endpoints : \A f \in sent :
        (ReadSent(e, f) /\ ret[e].pre = f.challenge) =>
            /\ ret[e].out = "return"
            /\ ret[e].code = f.code
            /\ ret[e].data = f.data

\* C2: for a well-formed frame with a code of QOSSTCodes and a good signature,
\* recv() accepts the frame and adopts its next_challenge when the frame's
\* challenge equals the pending challenge or the code is
\* IDENTIFICATION_REQUEST; otherwise it returns AUTHENTICATION_FAILURE with no
\* payload and keeps its pending challenge.
C2_ChallengeRule ==
    \A e \in Endpoints : \A f \in net.crafted :
        (ReadCrafted(e, f) /\ f.defect = "none" /\ f.code \in QOSSTCodes) =>
            IF f.challenge = ret[e].pre \/ f.code = IDENTIFICATION_REQUEST
            THEN /\ ret[e].out = "return"
                 /\ ret[e].code = f.code
                 /\ ret[e].data = VersionData
                 /\ ret[e].post = f.next_challenge
            ELSE /\ ret[e].out = "return"
                 /\ ret[e].code = AUTHENTICATION_FAILURE
                 /\ ret[e].data = PyNone
                 /\ ret[e].post = ret[e].pre

\* C2, its three cases have happened at the two endpoints or in two calls: an
\* IDENTIFICATION_REQUEST with a wrong challenge was accepted and its
\* next_challenge adopted.
C2_Witness ==
    \E e \in Endpoints : \E f \in net.crafted :
        /\ ReadCrafted(e, f) /\ f.defect = "none"
        /\ f.code = IDENTIFICATION_REQUEST /\ f.challenge # ret[e].pre
        /\ ret[e].code = IDENTIFICATION_REQUEST
        /\ ret[e].post = f.next_challenge

\* The captured frame whose second delivery the recv() at e read.
ReplayedFrame(e) == CHOOSE f \in sent : f.to = e /\ f.at + 1 = ret[e].replay

\* C3 (as the specification states it): a recv() that reads the second
\* delivery of a frame the receiver has accepted before returns
\* AUTHENTICATION_FAILURE, unless the frame's code is IDENTIFICATION_REQUEST.
C3_ReplayRejected ==
    \A e \in Endpoints :
        (RecvDone(e) /\ ret[e].replay # 0
            /\ ReplayedFrame(e).code # IDENTIFICATION_REQUEST) =>
            /\ ret[e].out = "return"
            /\ ret[e].code = AUTHENTICATION_FAILURE

\* C4: in a run of transfers that began with an IDENTIFICATION_REQUEST, after
\* each transfer (a send() on one endpoint and the accepting recv() on the
\* other) both endpoints hold the same challenge, and it is none of the
\* challenges either endpoint held before.
C4_ChallengeRotation ==
    (sess.boot /\ ~sess.inflight /\ sess.n >= 1) =>
        /\ challenge["client"] = challenge["server"]
        /\ challenge["client"] \notin sess.used

\* C4, two transfers in a row have succeeded after the bootstrap frame was
\* sent.
C4_Witness ==
    /\ sess.boot /\ ~sess.inflight /\ sess.n >= 2
    /\ challenge["client"] = challenge["server"]

\* The loops of recv(): a result with one of these stages is the result of a
\* read that returned zero bytes in that loop.
EofStages == {"fixed", "digest", "header", "content"}

\* C5 (as the specification states it): a read that returns zero bytes makes
\* recv() return SOCKET_DISCONNECTION in every loop.
C5_ZeroReadDisconnects ==
    \A e \in Endpoints :
        (RecvDone(e) /\ ret[e].stage \in EofStages) =>
            (ret[e].out = "return" /\ ret[e].code = SOCKET_DISCONNECTION)

\* C5 (amended): a read that returns zero bytes makes recv() return
\* SOCKET_DISCONNECTION in the loop of the fixed header, and FRAME_ERROR in
\* the loops of the signature, of the variable header and of the payload;
\* either with no payload.
C5_ZeroReadByLoop ==
    \A e \in Endpoints :
        (RecvDone(e) /\ ret[e].stage \in EofStages) =>
            /\ ret[e].out = "return"
            /\ ret[e].data = PyNone
            /\ ret[e].code = IF ret[e].stage = "fixed"
                             THEN SOCKET_DISCONNECTION ELSE FRAME_ERROR

\* C5, a read returned zero bytes in the loop of the signature and recv()
\* returned FRAME_ERROR.
C5_Witness ==
    \E e \in Endpoints :
        RecvDone(e) /\ ret[e].stage = "digest" /\ ret[e].code = FRAME_ERROR

\* C6 (as the specification states it): on a connected endpoint recv() never
\* raises; every fault is one of the four local error codes with no payload.
C6_RecvNeverRaises ==
    \A e \in Endpoints :
        (RecvDone(e) /\ ret[e].sock = "connected") =>
            /\ ret[e].out = "return"
            /\ ret[e].code \in QOSSTCodes \cup QOSSTErrorCodes
            /\ ret[e].code \in QOSSTErrorCodes => ret[e].data = PyNone

\* C7 (as the specification states it): send() and recv() on an endpoint that
\* is not opened, or opened and not connected, and the client's connect() on
\* an endpoint that is not opened, raise at the test of the precondition,
\* before any wait and before any operation on the transport.
C7_PreconditionFaults ==
    \A e \in Endpoints :
        (\/ ret[e].op \in {"send", "recv"} /\ ret[e].sock \in {"None", "opened"}
         \/ ret[e].op = "connect" /\ e = "client" /\ ret[e].sock = "None") =>
            /\ ret[e].out = "raise"
            /\ ret[e].exc = "OSError"
            /\ ret[e].stage = "precondition"
            /\ ret[e].post = ret[e].pre

\* C8: a recv() that read bytes of a frame of which one header or payload
\* byte was changed after signing never gets past the test of the signature:
\* it returns no protocol code and no payload, and keeps its pending
\* challenge; when it gets to the test of the signature it returns
\* AUTHENTICATION_FAILURE.
C8_DigestBinding ==
    \A e \in Endpoints :
        (RecvDone(e) /\ ret[e].alt) =>
            /\ ret[e].stage \notin {"challenge", "accepted"}
            /\ ~(ret[e].out = "return" /\ ret[e].code \in QOSSTCodes)
            /\ ret[e].data = PyNone
            /\ ret[e].post = ret[e].pre
            /\ ret[e].stage = "signature" =>
                   (ret[e].out = "return" /\ ret[e].code = AUTHENTICATION_FAILURE)

\* C8, an altered frame got to the test of the signature with the challenge
\* the receiver expected, and was refused there.
C8_Witness ==
    \E e \in Endpoints :
        /\ RecvDone(e) /\ ret[e].alt /\ ret[e].stage = "signature"
        /\ ret[e].code = AUTHENTICATION_FAILURE
        /\ ret[e].header["challenge"] = ret[e].pre

\* C9: a well-formed frame with a good signature and the expected challenge
\* whose code is no member of QOSSTCodes makes recv() return UNKOWN_CODE with
\* no payload, and leaves the pending challenge as it was.
C9_UnknownCode ==
    \A e \in Endpoints : \A f \in net.crafted :
        (ReadCrafted(e, f) /\ f.defect = "none" /\ f.code \notin QOSSTCodes
            /\ f.challenge = ret[e].pre) =>
            /\ ret[e].out = "return"
            /\ ret[e].code = UNKOWN_CODE
            /\ ret[e].data = PyNone
            /\ ret[e].post = ret[e].pre

\* C9, a frame with the code 999 and the expected challenge was read and
\* UNKOWN_CODE returned.
C9_Witness ==
    \E e \in Endpoints : \E f \in net.crafted :
        /\ ReadCrafted(e, f) /\ f.defect = "none" /\ f.code = 999
        /\ f.challenge = ret[e].pre
        /\ ret[e].code = UNKOWN_CODE

\* The defects C10 names: a header that does not parse, a header without one
\* of the four keys, a payload that does not parse.
MalformedDefects ==
    {"header_junk", "header_bad", "missing_key", "payload_junk", "payload_bad"}

\* C10 (as the specification states it): a frame whose header does not parse
\* or lacks one of the four keys, or whose payload does not parse, makes
\* recv() return FRAME_ERROR.
C10_MalformedIsFrameError ==
    \A e \in Endpoints : \A f \in net.crafted :
        (ReadCrafted(e, f) /\ f.defect \in MalformedDefects) =>
            (ret[e].out = "return" /\ ret[e].code = FRAME_ERROR)

\* C11 (as the specification states it): close() is terminal and idempotent;
\* in every state of the endpoint, never opened and closed before included, it
\* returns without raising.
C11_CloseNeverRaises ==
    \A e \in Endpoints : ret[e].op = "close" => ret[e].out = "return"

\* C12 (as the specification states it): a request() whose recv() returned
\* SOCKET_DISCONNECTION connects again, and then sends the same code and
\* payload once more.
C12_RequestReconnects ==
    (ret["client"].op = "connect" /\ ret["client"].sock = "connected") =>
        ret["client"].out = "return"

\* The server's side of the connection is gone.
ServerForgot == socket["server"] = "None" /\ "socket" \notin selector["server"]

\* What C13 says of every state.
ServerTeardownState ==
    /\ (ret["server"].op = "recv" /\ ret["server"].out = "return"
           /\ ret["server"].code = SOCKET_DISCONNECTION) => ServerForgot
    /\ (ret["server"].op \in {"send", "recv"} /\ ret["server"].sock = "None") =>
           /\ ret["server"].out = "raise"
           /\ ret["server"].exc = "OSError"
           /\ ret["server"].stage = "precondition"
           /\ ServerForgot

\* What C13 says of every step.
ServerTeardownStep ==
    (socket["server"] = "None" /\ socket'["server"] # "None") =>
        /\ socket'["server"] = "connected"
        /\ ret'["server"].op = "connect" /\ ret'["server"].out = "return"

C14_OneRegistration ==
    (ret["server"].op = "connect" /\ ret["server"].out = "return") =>
        selector["server"] = {"socket"}

\* The fairness of SpecLive is that of SpecLiveWF: CanRead(e) is ENABLED
\* <<ReadStep(e)>>_vars in every state, and ReadMade(e) holds of the steps
\* that are steps of ReadStep(e).
CanReadIsEnabled ==
    \A e \in Endpoints : CanRead(e) <=> ENABLED <<ReadStep(e)>>_vars

ReadMadeIsReadStep ==
    [][\A e \in Endpoints : ReadMade(e) <=> <<ReadStep(e)>>_vars]_vars

OnWire(f) ==
    /\ f.at >= net.rpos[f.to]
    /\ f.at - net.rpos[f.to] + f.len <= Len(wire[f.to])

\* The bytes of frame f on the wire, cut as the layout of C18 says: the two
\* sizes H and S from the first four bytes, then S bytes, then H bytes, then
\* the rest.
Sections(f) ==
    LET B == SubSeq(wire[f.to], f.at - net.rpos[f.to] + 1,
                    f.at - net.rpos[f.to] + f.len)
        H == FromBytes(SubSeq(B, 1, 2))
        S == FromBytes(SubSeq(B, 3, 4))
    IN  [H |-> H, S |-> S,
         signature |-> SubSeq(B, 5, 4 + S),
         variable_header |-> SubSeq(B, 5 + S, 4 + S + H),
         payload |-> SubSeq(B, 5 + S + H, Len(B))]

\* C16: a frame sent with no payload has content_length 0 and an empty
\* payload section, and a recv() that reads it with the challenge it expects
\* (or as an IDENTIFICATION_REQUEST) accepts it and returns its code with no
\* payload, never FRAME_ERROR.
C16_NoPayloadFrame ==
    \A f \in sent :
        ~Truthy(f.data) =>
            /\ OnWire(f) =>
                   /\ Sections(f).payload = <<>>
                   /\ JsonLoads(Sections(f).variable_header).val.d["content_length"]
                          = PyInt(0)
            /\ \A e \in Endpoints :
                   (ReadSent(e, f) /\ (ret[e].pre = f.challenge
                                        \/ f.code = IDENTIFICATION_REQUEST)) =>
                       /\ ret[e].out = "return"
                       /\ ret[e].code = f.code
                       /\ ret[e].data = PyNone
                       /\ ret[e].stage = "accepted"

\* C16, an identification request with {"version": "0.2"} was accepted, and
\* then a frame with no payload, frame by frame.
C16_Witness ==
    \E e \in Endpoints : \E f \in sent :
        /\ ReadSent(e, f) /\ f.data = PyNone
        /\ ret[e].stage = "accepted" /\ ret[e].data = PyNone
        /\ sess.boot /\ sess.n >= 2

\* C18: the bytes send() writes for a frame are u16_be(H), u16_be(S), the
\* signature, the variable header and the payload, in this order: S is the
\* length of the signature and H that of the variable header, the signature
\* is sign(sha256(variable_header + payload)), the variable header is the
\* JSON text of the four fields with content_length the length in bytes of
\* the payload section, and the payload section is the JSON text of the
\* payload (nothing when send() was given none).
C18_FrameFormat ==
    \A f \in sent :
        OnWire(f) =>
            LET x == Sections(f)
                header == JsonLoads(x.variable_header)
            IN  /\ f.len = 4 + x.S + x.H + Len(x.payload)
                /\ Len(x.signature) = x.S /\ Len(x.variable_header) = x.H
                /\ x.signature = sign_digest(Sha256(x.variable_header \o x.payload))
                /\ header.err = ""
                /\ header.val = PyDict(VariableHeader(f.code, Len(x.payload),
                                                      f.challenge, f.next_challenge))
                /\ x.payload = IF Truthy(f.data) THEN DumpsData(f.data) ELSE <<>>

\* C18, a frame with a payload and a frame without one are on the wire.
C18_Witness ==
    \E f, g \in sent :
        /\ OnWire(f) /\ Truthy(f.data) /\ Len(Sections(f).payload) > 0
        /\ OnWire(g) /\ g.data = PyNone

\* The recv() that ended at e got to the test of the challenge with a frame
\* whose challenge is not the pending one, and e had accepted another frame
\* before: the frame is not the first of its session.
MismatchAfterBootstrap(e) ==
    /\ RecvDone(e) /\ ret[e].stage \in {"challenge", "accepted"}
    /\ ret[e].header["challenge"] # ret[e].pre
    /\ net.accepted[e] \ {ret[e].header["next_challenge"]} # {}

\* C17 (as the specification states it): but for the first
\* IDENTIFICATION_REQUEST of a session, every frame whose challenge differs
\* from the pending challenge is rejected with AUTHENTICATION_FAILURE.
C17_ExemptionOnlyFirst ==
    \A e \in Endpoints :
        MismatchAfterBootstrap(e) =>
            (ret[e].out = "return" /\ ret[e].code = AUTHENTICATION_FAILURE)

\* C17 (amended): every IDENTIFICATION_REQUEST is exempt from the test of
\* the challenge, the first of a session or not: a frame that gets to the
\* test with a challenge that differs from the pending one is accepted and
\* its next_challenge adopted when its code is IDENTIFICATION_REQUEST, and
\* is rejected with AUTHENTICATION_FAILURE, the pending challenge kept,
\* when it has any other code.
C17_ExemptionEveryIdRequest ==
    \A e \in Endpoints :
        (RecvDone(e) /\ ret[e].stage \in {"challenge", "accepted"}
            /\ ret[e].header["challenge"] # ret[e].pre) =>
            /\ ret[e].out = "return"
            /\ IF ret[e].header["code"] = PyInt(IDENTIFICATION_REQUEST)
               THEN /\ ret[e].stage = "accepted"
                    /\ ret[e].code = IDENTIFICATION_REQUEST
                    /\ ret[e].post = ret[e].header["next_challenge"]
               ELSE /\ ret[e].stage = "challenge"
                    /\ ret[e].code = AUTHENTICATION_FAILURE
                    /\ ret[e].data = PyNone
                    /\ ret[e].post = ret[e].pre

\* C17, a receiver that had accepted frames read a frame that is no
\* IDENTIFICATION_REQUEST and whose challenge is not the pending one, and
\* rejected it.
C17_Witness ==
    \E e \in Endpoints :
        /\ MismatchAfterBootstrap(e)
        /\ ret[e].header["code"] # PyInt(IDENTIFICATION_REQUEST)
        /\ ret[e].code = AUTHENTICATION_FAILURE

\* What recv() returns when its pending challenge is pre and one read hands
\* it the bytes of frame f, all of them and no others.
WholeResult(f, pre) ==
    AfterRead(pre, [IdleRecv EXCEPT !.pc = "fixed"],
              FrameBytes(f.code, f.data, f.challenge, f.next_challenge)).res

\* C19 (as the specification states it): however the bytes of one frame are
\* split into successive reads, recv() returns what it returns when one read
\* hands it the whole frame.
C19_ChunkIndependence ==
    \A e \in Endpoints : \A f \in sent :
        ReadSent(e, f) =>
            /\ ret[e].out = WholeResult(f, ret[e].pre).out
            /\ ret[e].code = WholeResult(f, ret[e].pre).code
            /\ ret[e].data = WholeResult(f, ret[e].pre).data
            /\ ret[e].post = WholeResult(f, ret[e].pre).challenge

\* C20 (as the specification states it): a recv() that reads a frame from
\* its first byte and accepts it has taken from the stream the bytes of that
\* frame and no byte of what follows it.
C20_OneFramePerRecv ==
    \A e \in Endpoints : \A f \in sent :
        (RecvDone(e) /\ f.to = e /\ ret[e].from = f.at
            /\ ret[e].stage = "accepted") =>
            ret[e].taken = f.len

\* The values of the members of an enumeration.
Values(members) == {members[i].value : i \in 1..Len(members)}

\* The registry of C21: no two members of QOSSTCodes have the same value,
\* every value lies in the band of its group and in no other band, and every
\* value of QOSSTErrorCodes is negative.
RegistryPartitioned ==
    /\ \A i, j \in 1..Len(QOSSTCodesMembers) :
           QOSSTCodesMembers[i].value = QOSSTCodesMembers[j].value => i = j
    /\ \A i \in 1..Len(QOSSTCodesMembers) :
           \A g \in DOMAIN Bands :
               QOSSTCodesMembers[i].value \in Bands[g]
                   <=> g = QOSSTCodesMembers[i].group
    /\ QOSSTCodes = Values(QOSSTCodesMembers)
    /\ QOSSTErrorCodes = Values(QOSSTErrorCodesMembers)
    /\ \A v \in QOSSTErrorCodes : v < 0
    /\ QOSSTCodes \cap QOSSTErrorCodes = {}

C22_NonBlockingBetweenCalls ==
    \A e \in Endpoints :
        (/\ socket[e] = "connected"
         /\ ret[e].op \in {"connect", "send", "recv"}
         /\ ret[e].out = "return") =>
            (~blocking[e] /\ "socket" \in selector[e])

\* A value has the form send() gives a challenge: a string of
\* CHALLENGE_LENGTH characters, each a letter or a digit.  Of the strings of
\* the model those with a positive identifier have this form (the strings
\* secrets.choice produced, and the strings of that form a frame was crafted
\* with); 0 is "" and a negative identifier is a string of another form.
IsChallenge(x) == x.ty = "str" /\ x.v > 0

\* C23 (as the specification states it): in every state self.challenge is ""
\* or a string of CHALLENGE_LENGTH letters and digits, whatever frames the
\* other party has sent.
C23_ChallengeWellFormed ==
    \A e \in Endpoints : challenge[e] = PyStr(0) \/ IsChallenge(challenge[e])

\* C24: when recv() has returned one of the four local error codes,
\* self.challenge is what it was when recv() was called: the next_challenge
\* of a frame that was not accepted is not adopted.
C24_RejectedKeepsChallenge ==
    \A e \in Endpoints :
        (RecvDone(e) /\ ret[e].out = "return" /\ ret[e].code \in QOSSTErrorCodes) =>
            /\ ret[e].post = ret[e].pre
            /\ challenge[e] = ret[e].pre
            /\ ret[e].data = PyNone

\* C24, a well-formed and well-signed frame was rejected at the test of the
\* challenge, and its next_challenge, which differs from the pending
\* challenge, was not adopted.
C24_Witness ==
    \E e \in Endpoints :
        /\ RecvDone(e) /\ ret[e].code = AUTHENTICATION_FAILURE
        /\ ret[e].stage = "challenge"
        /\ ret[e].header["next_challenge"] # ret[e].pre
        /\ challenge[e] = ret[e].pre

\* C25 (as the specification states it): once a frame that was sent has been
\* rejected with FRAME_ERROR, UNKOWN_CODE or AUTHENTICATION_FAILURE, the
\* challenges of the two endpoints differ, and every frame other than an
\* IDENTIFICATION_REQUEST is rejected with AUTHENTICATION_FAILURE, until an
\* IDENTIFICATION_REQUEST has been accepted.
C25_RejectionDiverges ==
    /\ net.rej # "none" => challenge["client"] # challenge["server"]
    /\ ~net.badL

\* C25 (amended): the same of a rejected frame since whose sending no
\* IDENTIFICATION_REQUEST was accepted.  (An endpoint that sent a frame and
\* then accepted an IDENTIFICATION_REQUEST that crossed it holds the same
\* challenge as the other endpoint when that endpoint rejects the frame.)
C25_RejectionDivergesUnlessReset ==
    /\ net.rej = "diverged" => challenge["client"] # challenge["server"]
    /\ ~net.bad

\* C25, a frame was rejected, and then a frame other than an
\* IDENTIFICATION_REQUEST, read as it was sent, was rejected with
\* AUTHENTICATION_FAILURE at the test of the challenge.
C25_Witness ==
    \E e \in Endpoints : \E f \in sent :
        /\ net.rej = "diverged"
        /\ ReadSent(e, f) /\ ~ret[e].alt /\ f.code # IDENTIFICATION_REQUEST
        /\ ret[e].code = AUTHENTICATION_FAILURE /\ ret[e].stage = "challenge"
        /\ net.tampers > 0 /\ f.next_challenge.v = MaxSends

\* C26: when the write of send() failed, self.challenge is the next_challenge
\* send() drew for the frame and not the challenge it had at the call; no
\* frame with that next_challenge reached the connection; and the handle is
\* in blocking mode.
C26_FailedSendKeepsNewChallenge ==
    \A e \in Endpoints :
        (ret[e].op = "send" /\ ret[e].out = "raise" /\ ret[e].stage = "sendall") =>
            /\ ret[e].post # ret[e].pre
            /\ IsChallenge(ret[e].post)
            /\ challenge[e] = ret[e].post
            /\ \A f \in sent : f.next_challenge # ret[e].post
            /\ \A p \in Endpoints : ret[e].post \notin net.accepted[p]
            /\ blocking[e]

\* C26, the two endpoints held the same challenge after a transfer, the
\* other party closed, and the write of a send() failed.
C26_Witness ==
    \E e \in Endpoints :
        /\ ret[e].op = "send" /\ ret[e].out = "raise" /\ ret[e].stage = "sendall"
        /\ ret[e].sock = "connected" /\ socket[Peer(e)] = "closed"
        /\ ret[e].pre # PyStr(0) /\ ret[e].pre \in net.accepted[e]
        /\ challenge[e] # ret[e].pre

\* Frames f and g were sent in opposite directions from the same challenge:
\* the two senders held the same challenge, and each sent before it had
\* received the other's frame.
Crossing(f, g) == f.to # g.to /\ f.challenge = g.challenge

\* C27: a frame that crossed a frame of its receiver, and is no
\* IDENTIFICATION_REQUEST, is rejected by recv() with AUTHENTICATION_FAILURE
\* at the test of the challenge: the receiver holds a challenge it drew in a
\* send() of its own (one it did not adopt from a frame), not the challenge
\* the frame carries, and keeps it.
C27_CrossingFramesRejected ==
    \A e \in Endpoints : \A f, g \in sent :
        (ReadSent(e, f) /\ Crossing(f, g) /\ f.code # IDENTIFICATION_REQUEST) =>
            /\ ret[e].out = "return"
            /\ ret[e].code = AUTHENTICATION_FAILURE
            /\ ret[e].stage = "challenge"
            /\ ret[e].pre # f.challenge
            /\ IsChallenge(ret[e].pre) /\ ret[e].pre \notin net.accepted[e]
            /\ ret[e].post = ret[e].pre

\* C27, two frames that are no IDENTIFICATION_REQUEST crossed, and each
\* endpoint's recv() of the other's frame returned AUTHENTICATION_FAILURE.
C27_Witness ==
    \E f, g \in sent :
        /\ Crossing(f, g)
        /\ f.code # IDENTIFICATION_REQUEST /\ g.code # IDENTIFICATION_REQUEST
        /\ ReadSent(f.to, f) /\ ret[f.to].code = AUTHENTICATION_FAILURE
        /\ ReadSent(g.to, g) /\ ret[g.to].code = AUTHENTICATION_FAILURE

\* The request() of the client met SOCKET_DISCONNECTION, called connect() on
\* the way to its second attempt, and is over.
RequestOverAfterDisconnection ==
    /\ RequestPc = "none"
    /\ ret["client"].op = "connect" /\ ret["client"].sock = "connected"

\* C28 (as the specification states it): a request() that met
\* SOCKET_DISCONNECTION sends its frame a second time, and the second frame
\* carries as its challenge the next_challenge the first attempt drew (the
\* challenge the client holds when it connects again).
C28_RetryCarriesNextChallenge ==
    RequestOverAfterDisconnection =>
        \E f \in sent :
            /\ f.to = "server"
            /\ f.challenge = ret["client"].pre
            /\ f.next_challenge = challenge["client"]

\* The last call on the client was a recv() that returned
\* SOCKET_DISCONNECTION.
ClientDisconnected ==
    /\ ret["client"].op = "recv" /\ ret["client"].out = "return"
    /\ ret["client"].code = SOCKET_DISCONNECTION

\* The handle the client connected is still the client's handle, open,
\* registered once and in blocking mode.
DeadHandleInPlace ==
    /\ socket["client"] = "connected"
    /\ selector["client"] = {"socket"}
    /\ blocking["client"]

\* C29 (as the specification states it): after a SOCKET_DISCONNECTION the
\* client keeps its handle (open, registered, blocking), request() calls
\* connect() on that handle, and the selector's register is invoked on the
\* handle, which is registered already.
C29_RetryRegistersAgain ==
    /\ ClientDisconnected => DeadHandleInPlace
    /\ RequestOverAfterDisconnection =>
           (ret["client"].out = "raise" /\ ret["client"].stage = "register")

\* C29 (amended): after a SOCKET_DISCONNECTION the client keeps its handle
\* (open, registered, blocking), and request() calls connect() on that
\* handle; the call ends with OSError where the transport connects, before
\* the selector's register is reached, and the handle stays as it was.
C29_RetryRaisesBeforeRegister ==
    /\ ClientDisconnected => DeadHandleInPlace
    /\ RequestOverAfterDisconnection =>
           /\ ret["client"].out = "raise" /\ ret["client"].exc = "OSError"
           /\ ret["client"].stage = "connect"
           /\ DeadHandleInPlace

\* C29 witness: request() met a disconnection and called connect() on the
\* handle it had.
C29_Witness ==
    /\ RequestOverAfterDisconnection
    /\ DeadHandleInPlace
    /\ ret["client"].stage = "connect"

\* Frame f was sent to the server by a client constructed after the first,
\* whose challenge was empty: the first frame of a new peer.
FirstFrameOfNewPeer(f) ==
    /\ f.to = "server" /\ net.fresh >= 0 /\ f.at >= net.fresh
    /\ f.challenge = PyStr(0)

\* The server's recv() that found the disconnection has returned: the peer's
\* handle is forgotten and the challenge is the one recv() was called with.
TeardownKeepsChallenge ==
    (/\ ret["server"].op = "recv" /\ ret["server"].out = "return"
     /\ ret["server"].code = SOCKET_DISCONNECTION) =>
        /\ ret["server"].post = ret["server"].pre
        /\ challenge["server"] = ret["server"].pre

\* A step of the server's connect(), and the step of recv() that forgets the
\* peer, leave the server's challenge as it is.
ServerChallengeKeptStep ==
    (\/ ret'["server"].op = "connect" /\ ret'["server"] # ret["server"]
     \/ socket["server"] = "connected" /\ socket'["server"] = "None") =>
        challenge'["server"] = challenge["server"]

\* What recv() of the server makes of the first frame f of a new peer.
FirstFrameOutcome(f) ==
    IF f.code = IDENTIFICATION_REQUEST
    THEN /\ ret["server"].out = "return" /\ ret["server"].code = f.code
         /\ ret["server"].post = f.next_challenge
    ELSE /\ ret["server"].out = "return"
         /\ ret["server"].code = AUTHENTICATION_FAILURE
         /\ ret["server"].post = ret["server"].pre

\* C30 (as the specification states it), its part on frames: the first frame
\* of a new peer with an empty ledger, which the server accepted after its
\* recv() had torn the earlier peer down, is accepted if it is an
\* IDENTIFICATION_REQUEST, and any other yields AUTHENTICATION_FAILURE.
C30_NewPeerNeedsIdentification ==
    \A f \in sent :
        (/\ ReadSent("server", f) /\ FirstFrameOfNewPeer(f)
         /\ "earlier_socket" \notin selector["server"]) => FirstFrameOutcome(f)

\* The same for a server whose challenge is not empty.
NewPeerNeedsIdentificationState ==
    \A f \in sent :
        (/\ ReadSent("server", f) /\ FirstFrameOfNewPeer(f)
         /\ ret["server"].pre # PyStr(0)) => FirstFrameOutcome(f)

\* C30 (amended): the server's challenge is left unchanged by the teardown in
\* recv() and by a later connect(); when it is not empty (the server has sent
\* or accepted a frame before), the first frame of a new peer with an empty
\* ledger is accepted if it is an IDENTIFICATION_REQUEST and yields
\* AUTHENTICATION_FAILURE otherwise.
C30_NewPeerNeedsIdentificationUnlessEmpty ==
    /\ [](TeardownKeepsChallenge /\ NewPeerNeedsIdentificationState)
    /\ [][ServerChallengeKeptStep]_vars

\* C30 witness: the server adopted a challenge from its first peer, kept it
\* through the teardown and the next connect(), and refused with it the
\* first frame of the new peer, which was no IDENTIFICATION_REQUEST.
C30_Witness ==
    \E f \in sent :
        /\ ReadSent("server", f) /\ FirstFrameOfNewPeer(f)
        /\ f.code # IDENTIFICATION_REQUEST
        /\ ret["server"].pre \in net.accepted["server"]
        /\ ret["server"].code = AUTHENTICATION_FAILURE
        /\ challenge["server"] = ret["server"].pre

=============================================================================
